---- MODULE Spec2Model ----
(***************************************************************************)
(* TileLookup (src/lib/TileLookup.js): the geodesic tile-code calculator,   *)
(* the application's helpers over it (src/js/app.js) and the tile upload   *)
(* of the server (src/server/server.js).                                   *)
(*                                                                         *)
(* Representation.                                                         *)
(*  - A JavaScript string is a sequence of UTF-16 code units (<<77, 55>>   *)
(*    is "M7"); arrays are sequences, read with At(arr, i) at the source's *)
(*    0-based index i.                                                     *)
(*  - A number of the geometry is a fixed-point integer: the coordinate c  *)
(*    of a unit vector is the integer nearest to c * Scale.  TLC's         *)
(*    integers are 32 bits wide, which is what limits Scale; doubles have  *)
(*    the same finite resolution, at a finer scale.                        *)
(*  - An angle is an integer number of microdegrees.                       *)
(*  - A vertex held in a triangle is a reference to an array object:       *)
(*    either row k of this.vico (the lookup code stores the table's rows   *)
(*    themselves, not copies) or a fresh array made by interp.             *)
(***************************************************************************)
EXTENDS Integers, Sequences, FiniteSets, TLC

VARIABLES this, pc, call, ret, seen, disk, tiles, req, now,
          sectors, sessions, save, calls, ongoingGenerations, gens

\* The lookup's state: the instance and the call made on it.
lookup == <<this, pc, call, ret, seen>>

\* The storage's persistence (src/server/storage.js): saveInProgress,
\* pendingSave, the writes of the storage file in flight, the setImmediate
\* callbacks queued and the file's content; calls counts the calls of the
\* storage's mutating methods, or the sessions created.
saving == <<save, calls>>

\* The downloads of the server: ongoingGenerations and the generation
\* requests being served.
generations == <<ongoingGenerations, gens>>

\* The tile server's state (src/server): the paths of the files in the
\* uploads directory, storage.tiles, the request being served, the clock,
\* storage.sectors, storage.sessions, the persistence and the downloads.
server == <<disk, tiles, req, now, sectors, sessions, save, calls,
            ongoingGenerations, gens>>

vars == <<this, pc, call, ret, seen, disk, tiles, req, now,
          sectors, sessions, save, calls, ongoingGenerations, gens>>

(***************************************************************************)
(* Arithmetic                                                              *)
(***************************************************************************)

\* Fixed-point units per 1.0.
Scale == 10000

\* F applied to the value of e, which is computed once.
With(e, F(_)) == CHOOSE y \in {F(x) : x \in {e}} : TRUE

\* The 0-based element i of a JavaScript array.
At(arr, i) == arr[i + 1]

Abs(n) == IF n < 0 THEN -n ELSE n

Sign(n) == IF n > 0 THEN 1 ELSE IF n < 0 THEN -1 ELSE 0

\* a / b rounded to the nearest integer, halves away from zero (b > 0).
RoundDiv(a, b) == Sign(a) * ((2 * Abs(a) + b) \div (2 * b))

RECURSIVE SqrtIter(_, _)
SqrtIter(n, x) ==
    LET y == (x + n \div x) \div 2
    IN  IF y >= x THEN x ELSE SqrtIter(n, y)

\* Math.sqrt on integers: the integer nearest to the square root (n < 2^30).
Sqrt(n) ==
    IF n = 0 THEN 0
    ELSE LET f == SqrtIter(n, 32768)
         IN  IF n - f * f > f THEN f + 1 ELSE f

\* atan(2^-i) in microdegrees, i = 0, 1, ...
AtanTable ==
    <<45000000, 26565051, 14036243, 7125016, 3576334, 1789911, 895174,
      447614, 223811, 111906, 55953, 27976, 13988, 6994, 3497, 1749, 874,
      437, 219, 109>>

\* n / 2^i, rounded towards zero.
Shr(n, i) == IF n >= 0 THEN n \div (2 ^ i) ELSE -((-n) \div (2 ^ i))

\* The angle of (x, y), x >= 0, by CORDIC rotations towards the x axis.
RECURSIVE Cordic(_, _, _, _)
Cordic(x, y, ang, i) ==
    IF i >= Len(AtanTable) \/ y = 0 THEN ang
    ELSE IF y > 0
         THEN Cordic(x + Shr(y, i), y - Shr(x, i), ang + AtanTable[i + 1], i + 1)
         ELSE Cordic(x - Shr(y, i), y + Shr(x, i), ang - AtanTable[i + 1], i + 1)

\* Math.atan2(y, x) * 180 / Math.PI, in microdegrees.
Atan2Deg(y, x) ==
    IF y = 0 THEN (IF x >= 0 THEN 0 ELSE 180000000)
    ELSE IF x = 0 THEN (IF y > 0 THEN 90000000 ELSE -90000000)
    ELSE IF x > 0 THEN Cordic(x * 1024, y * 1024, 0, 0)
    ELSE IF y > 0 THEN 180000000 + Cordic((-x) * 1024, (-y) * 1024, 0, 0)
    ELSE -180000000 + Cordic((-x) * 1024, (-y) * 1024, 0, 0)

(***************************************************************************)
(* Strings                                                                 *)
(***************************************************************************)

\* String.prototype.charAt: the one-unit string at index i, or "".
CharAt(s, i) == IF i >= 0 /\ i < Len(s) THEN <<s[i + 1]>> ELSE <<>>

\* The upper-case mapping of one code unit: a-z, and the two letters
\* outside ASCII whose upper case is an ASCII letter (U+0131 dotless i,
\* U+017F long s).
UpperUnit(c) ==
    IF c >= 97 /\ c <= 122 THEN c - 32
    ELSE IF c = 305 THEN 73
    ELSE IF c = 383 THEN 83
    ELSE c

\* The first character used as it is, toUpperCase left out.
ToUpperCaseLeftOut(s) == s

\* String.prototype.toUpperCase, on the strings charAt returns.
ToUpperCase(s) == [k \in 1..Len(s) |-> UpperUnit(s[k])]

RECURSIVE IndexFrom(_, _, _)
IndexFrom(arr, x, i) ==
    IF i >= Len(arr) THEN -1
    ELSE IF At(arr, i) = x THEN i
    ELSE IndexFrom(arr, x, i + 1)

\* Array.prototype.indexOf: the first index holding x, or -1.
IndexOf(arr, x) == IndexFrom(arr, x, 0)

\* parseInt of a string of at most one code unit: a decimal digit gives its
\* value, anything else (the empty string, a sign, a space, a letter) NaN.
ParseInt(s) ==
    IF Len(s) = 1 /\ s[1] >= 48 /\ s[1] <= 57
    THEN [nan |-> FALSE, n |-> s[1] - 48]
    ELSE [nan |-> TRUE, n |-> 0]

IsNaN(v) == v.nan

(***************************************************************************)
(* Construction                                                            *)
(***************************************************************************)

\* this.facets: the strings "A" .. "T".
facetsTable == [k \in 1..20 |-> <<64 + k>>]

\* The literals of this.vico, in units of 10^-5.
vicoLiterals ==
    << <<0, 0, 100000>>,
       <<89443, 0, 44721>>,
       <<27639, 85065, 44721>>,
       <<-72361, 52573, 44721>>,
       <<-72361, -52573, 44721>>,
       <<27639, -85065, 44721>>,
       <<72361, 52573, -44721>>,
       <<-27639, 85065, -44721>>,
       <<-89443, 0, -44721>>,
       <<-27639, -85065, -44721>>,
       <<72361, -52573, -44721>>,
       <<0, 0, -100000>> >>

\* this.vico in fixed point.
vicoTable ==
    [k \in 1..12 |-> [c \in 1..3 |-> RoundDiv(vicoLiterals[k][c] * Scale, 100000)]]

\* this.fico with the last face written in the other direction.
ficoReversed ==
    << <<2, 0, 1>>, <<3, 0, 2>>, <<4, 0, 3>>, <<5, 0, 4>>, <<1, 0, 5>>,
       <<1, 6, 2>>, <<7, 2, 6>>, <<2, 7, 3>>, <<8, 3, 7>>, <<3, 8, 4>>,
       <<9, 4, 8>>, <<4, 9, 5>>, <<10, 5, 9>>, <<5, 10, 1>>, <<6, 1, 10>>,
       <<6, 11, 7>>, <<7, 11, 8>>, <<8, 11, 9>>, <<9, 11, 10>>, <<10, 6, 11>> >>

\* this.fico
ficoTable ==
    << <<2, 0, 1>>, <<3, 0, 2>>, <<4, 0, 3>>, <<5, 0, 4>>, <<1, 0, 5>>,
       <<1, 6, 2>>, <<7, 2, 6>>, <<2, 7, 3>>, <<8, 3, 7>>, <<3, 8, 4>>,
       <<9, 4, 8>>, <<4, 9, 5>>, <<10, 5, 9>>, <<5, 10, 1>>, <<6, 1, 10>>,
       <<6, 11, 7>>, <<7, 11, 8>>, <<8, 11, 9>>, <<9, 11, 10>>, <<10, 11, 6>> >>

subvertTable ==
    << <<0, 0, 1>>, <<0, 1, 1>>, <<1, 1, 2>>, <<1, 2, 2>>,
       <<0, 2, 2>>, <<0, 0, 2>>, <<0, 1, 2>> >>

\* this.subface with the corners of facet 5 in the other direction.
subfaceReversed ==
    << <<0, 1, 2>>,
       <<4, 1, 5>>, <<9, 5, 6>>, <<5, 9, 4>>,
       <<3, 4, 9>>, <<6, 7, 2>>, <<6, 7, 9>>,
       <<8, 9, 7>>, <<9, 8, 3>>, <<0, 3, 8>> >>

\* this.subface with facet 6 given the corners of facet 2.
subfaceOverlap ==
    << <<0, 1, 2>>,
       <<4, 1, 5>>, <<9, 5, 6>>, <<5, 9, 4>>,
       <<3, 4, 9>>, <<7, 6, 2>>, <<9, 5, 6>>,
       <<8, 9, 7>>, <<9, 8, 3>>, <<0, 3, 8>> >>

\* this.subface with the corners of facet 3 starting one corner later.
subfaceRotated ==
    << <<0, 1, 2>>,
       <<4, 1, 5>>, <<9, 5, 6>>, <<9, 4, 5>>,
       <<3, 4, 9>>, <<7, 6, 2>>, <<6, 7, 9>>,
       <<8, 9, 7>>, <<9, 8, 3>>, <<0, 3, 8>> >>

\* this.subface
subfaceTable ==
    << <<0, 1, 2>>,
       <<4, 1, 5>>, <<9, 5, 6>>, <<5, 9, 4>>,
       <<3, 4, 9>>, <<7, 6, 2>>, <<6, 7, 9>>,
       <<8, 9, 7>>, <<9, 8, 3>>, <<0, 3, 8>> >>

\* new TileLookup()
constructor ==
    [facets  |-> facetsTable,
     vico    |-> vicoTable,
     fico    |-> ficoTable,
     subvert |-> subvertTable,
     subface |-> subfaceTable]

(***************************************************************************)
(* Vertices and vector helpers                                             *)
(***************************************************************************)

\* A reference to the array object this.vico[k].
Row(k) == [row |-> k, p |-> <<0, 0, 0>>]

\* A reference to a newly made array holding v.
Fresh(v) == [row |-> -1, p |-> v]

\* The coordinates the referenced array holds now.
Deref(th, r) == IF r.row >= 0 THEN At(th.vico, r.row) ELSE r.p

\* What a call hands back: the instance as the call left it, how the call
\* ended ("ok", "throw" or "null"), the Error's message and the value.
Returned(th, v) == [this |-> th, status |-> "ok", message |-> "", value |-> v]

Thrown(th, msg) == [this |-> th, status |-> "throw", message |-> msg, value |-> <<>>]

\* x / m of interp, in fixed point.
Quotient(x, m) == RoundDiv(x * Scale, m)

\* The coordinates interp computes from three coordinate triples.
interpVec(a, b, c) ==
    LET x == a[1] + b[1] + c[1]
        y == a[2] + b[2] + c[2]
        z == a[3] + b[3] + c[3]
        m == Sqrt(x * x + y * y + z * z)
    IN  <<Quotient(x, m), Quotient(y, m), Quotient(z, m)>>

\* interp as it would be if it wrote the result into v1's array and returned
\* v1: a row of this.vico is overwritten when v1 is still a face's vertex.
interpInPlace(th, v1, v2, v3) ==
    LET nv == interpVec(Deref(th, v1), Deref(th, v2), Deref(th, v3))
    IN  IF v1.row >= 0
        THEN [this |-> [th EXCEPT !.vico[v1.row + 1] = nv], val |-> v1]
        ELSE [this |-> th, val |-> Fresh(nv)]

\* TileLookup.interp(v1, v2, v3): the unit vector of v1 + v2 + v3, returned
\* in a new array; the arrays of v1, v2 and v3 are only read.
interp(th, v1, v2, v3) ==
    [this |-> th,
     val  |-> Fresh(interpVec(Deref(th, v1), Deref(th, v2), Deref(th, v3)))]

\* TileLookup.cross(a, b), exact (each component is below 2^31).
cross(a, b) ==
    <<a[2] * b[3] - a[3] * b[2],
      a[3] * b[1] - a[1] * b[3],
      a[1] * b[2] - a[2] * b[1]>>

\* TileLookup.dot(a, b) of a cross product a and a vector b, exact: the
\* number hi * 10000 + lo with 0 <= lo < 10000, which 32 bits cannot hold.
dot(a, b) ==
    LET h == (a[1] \div 10000) * b[1] + (a[2] \div 10000) * b[2] + (a[3] \div 10000) * b[3]
        l == (a[1] % 10000) * b[1] + (a[2] % 10000) * b[2] + (a[3] % 10000) * b[3]
    IN  [hi |-> h + (l \div 10000), lo |-> l % 10000]

\* The coordinate value NaN, written as an integer no coordinate reaches.
NaN == -2147483647

\* Some coordinate of the point is NaN.
HasNaN(v) == \E i \in 1..3 : v[i] = NaN

\* TileLookup.rightSide(v, va, vb): dot(cross(va, vb), v) >= 0.  With a
\* NaN coordinate in v the dot product is NaN, and NaN >= 0 is false.
rightSide(v, va, vb) ==
    IF HasNaN(v) THEN FALSE ELSE dot(cross(va, vb), v).hi >= 0

\* TileLookup.within(v, va, vb, vc)
within(v, va, vb, vc) ==
    rightSide(v, va, vb) /\ rightSide(v, vb, vc) /\ rightSide(v, vc, va)

\* subTri without its copy: the loop reads the array it is overwriting.
subTriReadsAliased(t, subt) == subt

\* The array subTri's loop reads its corners from: t, the copy of tri taken
\* on entry.  Every caller passes one array as both tri and subt, so subt
\* is tri itself, overwritten as the loop goes.
subTriReads(t, subt) == t

RECURSIVE subTriLoop(_, _, _, _, _)
subTriLoop(th, t, facet, subt, i) ==
    IF i >= 3 THEN [this |-> th, subt |-> subt]
    ELSE LET k   == At(At(th.subface, facet), i)
             src == subTriReads(t, subt)
             r   == IF k < 3
                    THEN [this |-> th, val |-> At(src, k)]
                    ELSE interp(th,
                                At(src, At(At(th.subvert, k - 3), 0)),
                                At(src, At(At(th.subvert, k - 3), 1)),
                                At(src, At(At(th.subvert, k - 3), 2)))
         IN  subTriLoop(r.this, t, facet, [subt EXCEPT ![i + 1] = r.val], i + 1)

\* subTri(tri, facet, tri): the corners of child facet written over tri.
subTri(th, tri, facet) == subTriLoop(th, tri, facet, tri, 0)

FacetLetterMessage == "Invalid tile code: first character must be A-T"

DigitMessage == "Invalid tile code: digits must be 1-9"

\* The pass as it would be with the test facet < 0: "0" selects subface[0].
nameToFacetStepZero(st, name, i) ==
    LET facet == ParseInt(CharAt(name, i))
    IN  IF IsNaN(facet) \/ facet.n < 0 \/ facet.n > 9
        THEN Thrown(st.this, DigitMessage)
        ELSE LET r == subTri(st.this, st.value, facet.n)
             IN  Returned(r.this, r.subt)

\* One pass of nameToFacet's loop over the digits, at index i of name.
nameToFacetStep(st, name, i) ==
    LET facet == ParseInt(CharAt(name, i))
    IN  IF IsNaN(facet) \/ facet.n < 1 \/ facet.n > 9
        THEN Thrown(st.this, DigitMessage)
        ELSE LET r == subTri(st.this, st.value, facet.n)
             IN  Returned(r.this, r.subt)

\* The loop as it would be with the bound i < name.length - 1.
RECURSIVE nameToFacetLoopShort(_, _, _)
nameToFacetLoopShort(st, name, i) ==
    IF st.status = "throw" \/ i >= Len(name) - 1 THEN st
    ELSE nameToFacetLoopShort(nameToFacetStep(st, name, i), name, i + 1)

\* The loop runs from index i while no Error has been thrown.
RECURSIVE nameToFacetLoop(_, _, _)
nameToFacetLoop(st, name, i) ==
    IF st.status = "throw" \/ i >= Len(name) THEN st
    ELSE nameToFacetLoop(nameToFacetStep(st, name, i), name, i + 1)

\* nameToFacet as it would be if it validated the digits before the letter.
nameToFacetDigitsFirst(th, name) ==
    LET major == IndexOf(th.facets, ToUpperCase(CharAt(name, 0)))
        bad(i) == LET facet == ParseInt(CharAt(name, i))
                  IN  IsNaN(facet) \/ facet.n < 1 \/ facet.n > 9
    IN  IF \E i \in 1..(Len(name) - 1) : bad(i)
        THEN Thrown(th, DigitMessage)
        ELSE IF major < 0
        THEN Thrown(th, FacetLetterMessage)
        ELSE nameToFacetLoop(
                 Returned(th, [i \in 1..3 |-> Row(At(At(th.fico, major), i - 1))]),
                 name, 1)

\* nameToFacet(name): the three vertices of the tile, or the Error thrown.
nameToFacet(th, name) ==
    LET major == IndexOf(th.facets, ToUpperCase(CharAt(name, 0)))
    IN  IF major < 0
        THEN Thrown(th, FacetLetterMessage)
        ELSE nameToFacetLoop(
                 Returned(th, [i \in 1..3 |-> Row(At(At(th.fico, major), i - 1))]),
                 name, 1)

\* TileLookup.pointToGeo(point): <<lat, lon>> in microdegrees.
pointToGeo(point) ==
    LET r    == Sqrt(point[1] * point[1] + point[2] * point[2])
        lat0 == Atan2Deg(point[3], r)
        lon0 == IF r = 0 THEN 0 ELSE Atan2Deg(point[2], point[1])
        lat  == IF Abs(lat0) > 90000000 THEN Sign(lat0) * 90000000 ELSE lat0
        lon  == IF Abs(lon0) > 180000000 THEN Sign(lon0) * 180000000 ELSE lon0
    IN  <<lat, lon>>

\* nameToLocations(name): three <<lat, lon>> pairs, or nameToFacet's Error.
nameToLocations(th, name) ==
    LET r == nameToFacet(th, name)
    IN  IF r.status = "throw" THEN r
        ELSE Returned(r.this, [i \in 1..3 |-> pointToGeo(Deref(r.this, r.value[i]))])

\* The coordinates of the triangle nameToFacet returned.
Coordinates(r) == [i \in 1..3 |-> Deref(r.this, r.value[i])]

(***************************************************************************)
(* Reverse lookup                                                          *)
(***************************************************************************)

\* The vector CORDIC starts from so that it ends with length 64 * Scale.
CordicStart == RoundDiv(Scale * 38864, 1000)

\* (x, y) turned by the angle z (microdegrees, within +-90 degrees).
RECURSIVE Rotate(_, _, _, _)
Rotate(x, y, z, i) ==
    IF i >= Len(AtanTable) THEN <<x, y>>
    ELSE IF z >= 0
         THEN Rotate(x - Shr(y, i), y + Shr(x, i), z - AtanTable[i + 1], i + 1)
         ELSE Rotate(x + Shr(y, i), y - Shr(x, i), z + AtanTable[i + 1], i + 1)

\* <<Math.cos, Math.sin>> of an angle within +-90 degrees, in fixed point.
CosSin90(a) ==
    IF a = 0 THEN <<Scale, 0>>
    ELSE IF a = 90000000 THEN <<0, Scale>>
    ELSE IF a = -90000000 THEN <<0, -Scale>>
    ELSE LET r == Rotate(CordicStart, 0, a, 0)
         IN  <<RoundDiv(r[1], 64), RoundDiv(r[2], 64)>>

\* <<Math.cos, Math.sin>> of an angle within +-180 degrees.
CosSin(a) ==
    IF a > 90000000
    THEN LET r == CosSin90(180000000 - a) IN <<-r[1], r[2]>>
    ELSE IF a < -90000000
    THEN LET r == CosSin90(-180000000 - a) IN <<-r[1], r[2]>>
    ELSE CosSin90(a)

\* TileLookup.geoToPoint(latitude, longitude), angles in microdegrees.
geoToPoint(latitude, longitude) ==
    IF latitude = NaN THEN <<NaN, NaN, NaN>>
    ELSE IF longitude = NaN THEN <<NaN, NaN, CosSin(latitude)[2]>>
    ELSE LET lat == CosSin(latitude)
             lon == CosSin(longitude)
             r   == lat[1]
         IN  <<RoundDiv(r * lon[1], Scale), RoundDiv(r * lon[2], Scale), lat[2]>>

\* findTri's array v: v[0..2] are t's corners, v[3..9] the seven interps.
RECURSIVE findTriPoints(_, _, _, _)
findTriPoints(th, t, v, i) ==
    IF i >= 10 - 3 THEN [this |-> th, v |-> v]
    ELSE With(interp(th,
                     At(t, At(At(th.subvert, i), 0)),
                     At(t, At(At(th.subvert, i), 1)),
                     At(t, At(At(th.subvert, i), 2))),
              LAMBDA r : findTriPoints(r.this, t, Append(v, r.val), i + 1))

\* findTri's decision tree with the answers 6 and 5 exchanged.
findTriFacetFlipped(th, v, p) ==
    LET V(k) == Deref(th, At(v, k))
    IN  IF rightSide(p, V(6), V(3))
        THEN IF rightSide(p, V(9), V(5)) THEN 2
             ELSE IF rightSide(p, V(5), V(4)) THEN 1
             ELSE IF rightSide(p, V(4), V(9)) THEN 4
             ELSE 3
        ELSE IF rightSide(p, V(7), V(9))
             THEN (IF rightSide(p, V(6), V(7)) THEN 5 ELSE 6)
             ELSE IF rightSide(p, V(8), V(9)) THEN 7
             ELSE IF rightSide(p, V(8), V(3)) THEN 8
             ELSE 9

\* findTri's decision tree with facets 3 and 4 the other way round.
findTriFacetSwapped(th, v, p) ==
    LET V(k) == Deref(th, At(v, k))
    IN  IF rightSide(p, V(6), V(3))
        THEN IF rightSide(p, V(9), V(5)) THEN 2
             ELSE IF rightSide(p, V(5), V(4)) THEN 1
             ELSE IF rightSide(p, V(9), V(4)) THEN 3
             ELSE 4
        ELSE IF rightSide(p, V(7), V(9))
             THEN (IF rightSide(p, V(6), V(7)) THEN 6 ELSE 5)
             ELSE IF rightSide(p, V(8), V(9)) THEN 7
             ELSE IF rightSide(p, V(8), V(3)) THEN 8
             ELSE 9

\* findTri's decision tree over the dividing lines of the triangle.
findTriFacet(th, v, p) ==
    LET V(k) == Deref(th, At(v, k))
    IN  IF rightSide(p, V(6), V(3))
        THEN IF rightSide(p, V(9), V(5)) THEN 2
             ELSE IF rightSide(p, V(5), V(4)) THEN 1
             ELSE IF rightSide(p, V(4), V(9)) THEN 4
             ELSE 3
        ELSE IF rightSide(p, V(7), V(9))
             THEN (IF rightSide(p, V(6), V(7)) THEN 6 ELSE 5)
             ELSE IF rightSide(p, V(8), V(9)) THEN 7
             ELSE IF rightSide(p, V(8), V(3)) THEN 8
             ELSE 9

\* The end of findTri: the chosen facet's corners are written to subt, and
\* the facet is returned, or -1 when p is not within those corners.
findTriSelect(th, v, p, facet) ==
    LET subt == [i \in 1..3 |-> At(v, At(At(th.subface, facet), i - 1))]
    IN  [this  |-> th,
         subt  |-> subt,
         facet |-> IF within(p, Deref(th, subt[1]), Deref(th, subt[2]), Deref(th, subt[3]))
                   THEN facet ELSE -1]

\* findTri(t, p, t): the child facet chosen for p, its corners written over
\* t, and -1 for the facet when p is not within those corners.
findTri(th, t, p) ==
    With(findTriPoints(th, t, <<At(t, 0), At(t, 1), At(t, 2)>>, 0),
         LAMBDA pts : With(findTriFacet(pts.this, pts.v, p),
                           LAMBDA facet : findTriSelect(pts.this, pts.v, p, facet)))

\* The corners of base face `facet`: the rows of this.vico themselves.
faceVerts(th, facet) == [i \in 1..3 |-> Row(At(At(th.fico, facet), i - 1))]

\* pointToName's scan of the base faces from `facet` on: the first face p is
\* within, or 20.
\* pointToName's scan as it would be if it kept the last face p is within.
RECURSIVE pointToNameFaceLast(_, _, _)
pointToNameFaceLast(th, p, facet) ==
    IF facet >= 20 THEN 20
    ELSE LET verts == [i \in 1..3 |-> Row(At(At(th.fico, facet), i - 1))]
             later == pointToNameFaceLast(th, p, facet + 1)
         IN  IF later < 20 THEN later
             ELSE IF within(p, Deref(th, verts[1]), Deref(th, verts[2]), Deref(th, verts[3]))
             THEN facet
             ELSE 20

\* pointToName's scan as it would be if it stopped one face early.
RECURSIVE pointToNameFaceShort(_, _, _)
pointToNameFaceShort(th, p, facet) ==
    IF facet >= 19 THEN 20
    ELSE LET verts == [i \in 1..3 |-> Row(At(At(th.fico, facet), i - 1))]
         IN  IF within(p, Deref(th, verts[1]), Deref(th, verts[2]), Deref(th, verts[3]))
             THEN facet
             ELSE pointToNameFaceShort(th, p, facet + 1)

RECURSIVE pointToNameFace(_, _, _)
pointToNameFace(th, p, facet) ==
    IF facet >= 20 THEN 20
    ELSE LET verts == faceVerts(th, facet)
         IN  IF within(p, Deref(th, verts[1]), Deref(th, verts[2]), Deref(th, verts[3]))
             THEN facet
             ELSE pointToNameFace(th, p, facet + 1)

\* pointToName's descent as it would be with the test i <= depth.
RECURSIVE pointToNameLoopExtra(_, _, _, _)
pointToNameLoopExtra(st, p, depth, i) ==
    IF st.stop \/ i > depth THEN st
    ELSE With(findTri(st.this, st.verts, p),
              LAMBDA r : pointToNameLoopExtra(
                             [this    |-> r.this,
                              verts   |-> r.subt,
                              facetId |-> IF r.facet < 0 THEN st.facetId
                                          ELSE Append(st.facetId, 48 + r.facet),
                              stop    |-> r.facet < 0],
                             p, depth, i + 1))

\* pointToName's descent as it would be if facetId += facet came before
\* the test facet < 0: the characters "-1" end a code that stopped early.
RECURSIVE pointToNameLoopPad(_, _, _, _)
pointToNameLoopPad(st, p, depth, i) ==
    IF st.stop \/ i >= depth THEN st
    ELSE With(findTri(st.this, st.verts, p),
              LAMBDA r : pointToNameLoopPad(
                             [this    |-> r.this,
                              verts   |-> r.subt,
                              facetId |-> IF r.facet < 0 THEN st.facetId \o <<45, 49>>
                                          ELSE Append(st.facetId, 48 + r.facet),
                              stop    |-> r.facet < 0],
                             p, depth, i + 1))

\* pointToName's descent: pass i of the loop over the levels.
RECURSIVE pointToNameLoop(_, _, _, _)
pointToNameLoop(st, p, depth, i) ==
    IF st.stop \/ i >= depth THEN st
    ELSE With(findTri(st.this, st.verts, p),
              LAMBDA r : pointToNameLoop(
                             [this    |-> r.this,
                              verts   |-> r.subt,
                              facetId |-> IF r.facet < 0 THEN st.facetId
                                          ELSE Append(st.facetId, 48 + r.facet),
                              stop    |-> r.facet < 0],
                             p, depth, i + 1))

\* pointToName(p, depth): the tile code as a string, or null.
pointToName(th, p, depth) ==
    LET facet == pointToNameFace(th, p, 0)
    IN  IF facet >= 20
        THEN [this |-> th, status |-> "null", message |-> "", value |-> <<>>]
        ELSE LET st == pointToNameLoop(
                           [this    |-> th,
                            verts   |-> faceVerts(th, facet),
                            facetId |-> At(th.facets, facet),
                            stop    |-> FALSE],
                           p, depth, 0)
             IN  Returned(st.this, st.facetId)

\* locationToName(latitude, longitude)
locationToName(th, latitude, longitude) ==
    pointToName(th, geoToPoint(latitude, longitude), 6)

(***************************************************************************)
(* The application's helpers over the lookup (src/js/app.js)               *)
(***************************************************************************)

\* tileCode.slice(-1): the last code unit, or the empty string.
SliceLast(tileCode) ==
    IF Len(tileCode) = 0 THEN <<>> ELSE <<tileCode[Len(tileCode)]>>

\* parseInt of a string of at most one code unit: the digit, or NaN.
parseInt(str) ==
    IF Len(str) = 1 /\ str[1] >= 48 /\ str[1] <= 57 THEN str[1] - 48 ELSE NaN

\* The test for the digit 2 alone.
isInvertedTileTwo(tileCode) ==
    LET lastDigit == parseInt(SliceLast(tileCode))
    IN  lastDigit \in {2}

\* isInvertedTile(tileCode): [3, 6, 8].includes(lastDigit).
isInvertedTile(tileCode) ==
    LET lastDigit == parseInt(SliceLast(tileCode))
    IN  lastDigit \in {3, 6, 8}

\* tileCode + i, for a digit i.
SubTileCode(tileCode, i) == Append(tileCode, 48 + i)

\* [lng, lat] of the three locations, then the first again.
Coords(locations) ==
    << <<locations[1][2], locations[1][1]>>, <<locations[2][2], locations[2][1]>>,
       <<locations[3][2], locations[3][1]>>, <<locations[1][2], locations[1][1]>> >>

\* The loop with the locations pushed as nameToLocations returned them.
RECURSIVE getSubTileCoordinatesLoopLatLng(_, _, _, _)
getSubTileCoordinatesLoopLatLng(th, tileCode, i, subTiles) ==
    IF i > 9 THEN Returned(th, subTiles)
    ELSE With(nameToLocations(th, SubTileCode(tileCode, i)), LAMBDA r :
             getSubTileCoordinatesLoopLatLng(r.this, tileCode, i + 1,
                 IF r.status = "throw" THEN subTiles
                 ELSE Append(subTiles,
                             [code |-> SubTileCode(tileCode, i),
                              coordinates |-> <<r.value[1], r.value[2], r.value[3],
                                                r.value[1]>>])))

\* The loop of getSubTileCoordinates from digit i on: a child whose lookup
\* throws is logged and left out.
RECURSIVE getSubTileCoordinatesLoop(_, _, _, _)
getSubTileCoordinatesLoop(th, tileCode, i, subTiles) ==
    IF i > 9 THEN Returned(th, subTiles)
    ELSE With(nameToLocations(th, SubTileCode(tileCode, i)), LAMBDA r :
             getSubTileCoordinatesLoop(r.this, tileCode, i + 1,
                 IF r.status = "throw" THEN subTiles
                 ELSE Append(subTiles,
                             [code |-> SubTileCode(tileCode, i),
                              coordinates |-> Coords(r.value)])))

\* getSubTileCoordinates(tileCode), on the application's tileLookup.
getSubTileCoordinates(th, tileCode) == getSubTileCoordinatesLoop(th, tileCode, 1, <<>>)

(***************************************************************************)
(* The tile upload of the server (src/server/server.js)                    *)
(*                                                                         *)
(* A path and a file name are strings (sequences of code units); the disk  *)
(* is the set of the paths that name a file.  Of a tile's metadata the     *)
(* model keeps tileCode, sectorCode and filePath: hash, createdAt and      *)
(* sizeBytes are written and never read by the upload.                     *)
(***************************************************************************)

\* './uploads'
uploadsDir == <<46, 47, 117, 112, 108, 111, 97, 100, 115>>

\* path.join(dir, name) on the server's platform: the parts joined by "/",
\* a leading "./" dropped.
PathJoin(dir, name) ==
    LET joined == dir \o <<47>> \o name
    IN  IF Len(joined) >= 2 /\ joined[1] = 46 /\ joined[2] = 47
        THEN SubSeq(joined, 3, Len(joined))
        ELSE joined

\* str.substring(0, 4)
Substring4(str) == SubSeq(str, 1, IF Len(str) < 4 THEN Len(str) ELSE 4)

\* /^[A-Z]\d{3}$/.test(sectorCode)
SectorPattern(sectorCode) ==
    /\ Len(sectorCode) = 4
    /\ sectorCode[1] >= 65 /\ sectorCode[1] <= 90
    /\ \A i \in 2..4 : sectorCode[i] >= 48 /\ sectorCode[i] <= 57

\* The decimal digits of a number, as template literals write it.
RECURSIVE Decimal(_)
Decimal(n) == IF n < 10 THEN <<48 + n>> ELSE Decimal(n \div 10) \o <<48 + (n % 10)>>

\* uploadStorage.destination: the sector's directory when the file name
\* starts with a sector code, the flat uploads directory otherwise.
destination(originalname) ==
    IF SectorPattern(Substring4(originalname))
    THEN PathJoin(uploadsDir, Substring4(originalname))
    ELSE uploadsDir

\* uploadStorage.filename: the file's own name under sector-based naming,
\* `${timestamp}_${file.originalname}` otherwise.
filename(originalname, timestamp) ==
    IF SectorPattern(Substring4(originalname))
    THEN originalname
    ELSE Decimal(timestamp) \o <<95>> \o originalname

\* req.file.path as multer's disk storage sets it.
FilePath(originalname, timestamp) ==
    PathJoin(destination(originalname), filename(originalname, timestamp))

\* req.file.path.replace(/\\/g, '/')
NormalizePath(path) == [i \in 1..Len(path) |-> IF path[i] = 92 THEN 47 ELSE path[i]]

\* storage.getTile(tileCode): the metadata, or undefined.
HasTile(tileCode) == tileCode \in DOMAIN tiles

\* storage.tiles after storage.setTile(tileCode, tileData).
setTile(tileCode, tileData) ==
    [c \in DOMAIN tiles \cup {tileCode} |-> IF c = tileCode THEN tileData ELSE tiles[c]]

\* storage.tiles after storage.deleteTile(tileCode).
deleteTile(tileCode) == [c \in DOMAIN tiles \ {tileCode} |-> tiles[c]]

\* No request is being served.
NoReq ==
    [stage |-> "none", route |-> "none", hasFile |-> FALSE, path |-> <<>>,
     tileCode |-> <<>>, sectorCode |-> <<>>, sessionId |-> 0, status |-> 0,
     success |-> FALSE, replaced |-> FALSE]

(***************************************************************************)
(* The storage (src/server/storage.js)                                     *)
(*                                                                         *)
(* storage.sectors, storage.tiles and storage.sessions are functions from  *)
(* the keys of the Map to the objects; of a sector the model keeps         *)
(* sectorCode, totalTiles, uploadedTiles, missingTiles, tiles and status   *)
(* (createdAt and lastUpdatedAt are written and never read).  The jobs and *)
(* the socket events are left out: no handler modelled here reads them.    *)
(***************************************************************************)

\* arr.includes(x)
Includes(arr, x) == \E i \in 1..Len(arr) : arr[i] = x

\* arr after arr.splice(arr.indexOf(x), 1), when x is in arr; arr otherwise.
RECURSIVE SpliceOut(_, _)
SpliceOut(arr, x) ==
    IF arr = <<>> THEN <<>>
    ELSE IF Head(arr) = x THEN Tail(arr)
    ELSE <<Head(arr)>> \o SpliceOut(Tail(arr), x)

\* arr.filter(y => !other.includes(y))
Without(arr, other) ==
    LET others == {other[i] : i \in 1..Len(other)}
    IN  SelectSeq(arr, LAMBDA y : y \notin others)

\* The digits of the tile codes of a sector are 1..MaxDigit: the source's
\* sectors have the digits 1..9, the model's fewer.
MaxDigit == 2

\* The number of tiles of a sector, three digits each: the source's 729.
TotalTiles == MaxDigit * MaxDigit * MaxDigit

\* generateAllTileCodesForSector(sectorCode): `${sectorCode}${i}${j}${k}`
\* for i, j, k from 1 to MaxDigit, k running fastest.
generateAllTileCodesForSector(sectorCode) ==
    [n \in 1..TotalTiles |->
        sectorCode \o <<49 + ((n - 1) \div (MaxDigit * MaxDigit)),
                        49 + (((n - 1) \div MaxDigit) % MaxDigit),
                        49 + ((n - 1) % MaxDigit)>>]

\* The sector object the handlers create for a sector not yet stored.
NewSector(sectorCode) ==
    [sectorCode |-> sectorCode, totalTiles |-> TotalTiles, uploadedTiles |-> 0,
     missingTiles |-> generateAllTileCodesForSector(sectorCode),
     tiles |-> <<>>, status |-> "incomplete"]

\* storage.getSector(sectorCode): the sector, or undefined.
HasSector(secs, sectorCode) == sectorCode \in DOMAIN secs

\* storage.sectors after storage.createSector(sectorData).
createSector(secs, sectorData) ==
    [c \in DOMAIN secs \cup {sectorData.sectorCode} |->
        IF c = sectorData.sectorCode THEN sectorData ELSE secs[c]]

\* storage.sectors after storage.deleteSector(sectorCode).
deleteSector(secs, sectorCode) == [c \in DOMAIN secs \ {sectorCode} |-> secs[c]]

\* addTileToSector changes the sector: it is stored and does not list the
\* tile yet.
AddsTile(secs, sectorCode, tileCode) ==
    /\ HasSector(secs, sectorCode)
    /\ ~Includes(secs[sectorCode].tiles, tileCode)

\* storage.sectors after storage.addTileToSector(sectorCode, tileCode).
addTileToSector(secs, sectorCode, tileCode) ==
    IF ~AddsTile(secs, sectorCode, tileCode) THEN secs
    ELSE [secs EXCEPT ![sectorCode] =
            [@ EXCEPT !.tiles = Append(@, tileCode),
                      !.uploadedTiles = Len(secs[sectorCode].tiles) + 1,
                      !.status = IF Len(secs[sectorCode].tiles) + 1 = TotalTiles
                                 THEN "complete" ELSE "incomplete",
                      !.missingTiles = SpliceOut(@, tileCode)]]

\* sector.missingTiles = allTiles.filter(code => !sector.tiles.includes(code)),
\* on the sector object the Map holds.
RefreshMissing(secs, sectorCode) ==
    [secs EXCEPT ![sectorCode] =
        [@ EXCEPT !.missingTiles =
            Without(generateAllTileCodesForSector(sectorCode),
                    secs[sectorCode].tiles)]]

\* The data saveToFile writes: the sectors and the tiles (lastSaved, the
\* time of the save, is left out).
Snapshot(secs, tls) == [sectors |-> secs, tiles |-> tls]

\* Nothing is being saved; the storage file holds the empty storage.
NoSave ==
    [saveInProgress |-> FALSE, pendingSave |-> FALSE, writes |-> <<>>,
     immediates |-> 0, file |-> Snapshot(<<>>, <<>>)]

\* saveToFile that starts its write whatever saveInProgress says.
saveToFileUnguarded(sv, data) ==
    [sv EXCEPT !.saveInProgress = TRUE, !.writes = Append(@, data)]

\* saveToFile that returns while a save is in progress without a note.
saveToFileForgetful(sv, data) ==
    IF sv.saveInProgress THEN sv
    ELSE [sv EXCEPT !.saveInProgress = TRUE, !.writes = Append(@, data)]

\* saveToFile up to its await: a save in progress is told that another is
\* needed; otherwise the save is in progress and fs.writeFile has been
\* called with the data as they are now.
saveToFile(sv, data) ==
    IF sv.saveInProgress THEN [sv EXCEPT !.pendingSave = TRUE]
    ELSE [sv EXCEPT !.saveInProgress = TRUE, !.writes = Append(@, data)]

\* saveToFile after its await, the finally block: the save is over, and a
\* save asked for meanwhile is scheduled with setImmediate.
saveToFileFinally(sv) ==
    IF sv.pendingSave
    THEN [sv EXCEPT !.saveInProgress = FALSE, !.pendingSave = FALSE,
                    !.immediates = @ + 1]
    ELSE [sv EXCEPT !.saveInProgress = FALSE]

\* storage.getSession(sessionId): the session, or undefined.
HasSession(sess, sessionId) == sessionId \in DOMAIN sess

\* The session object of POST /api/sessions/create.
NewSession(sessionId, sectorCode) ==
    [id |-> sessionId, sectorCode |-> sectorCode, uploadedTiles |-> 0,
     tiles |-> <<>>]

\* storage.sessions after storage.createSession(sessionData).
createSession(sess, sessionData) ==
    [i \in DOMAIN sess \cup {sessionData.id} |->
        IF i = sessionData.id THEN sessionData ELSE sess[i]]

\* storage.sessions after storage.deleteSession(sessionId).
deleteSession(sess, sessionId) == [i \in DOMAIN sess \ {sessionId} |-> sess[i]]

\* storage.sessions after storage.addTileToSession(sessionId, tileCode): the
\* code is pushed, whether the list has it or not.
addTileToSession(sess, sessionId, tileCode) ==
    IF ~HasSession(sess, sessionId) THEN sess
    ELSE [sess EXCEPT ![sessionId].tiles = Append(@, tileCode)]

\* storage.sessions after storage.incrementSessionProgress(sessionId).
incrementSessionProgress(sess, sessionId) ==
    IF ~HasSession(sess, sessionId) THEN sess
    ELSE [sess EXCEPT ![sessionId].uploadedTiles = @ + 1]

(***************************************************************************)
(* The downloads of a sector (src/server/server.js)                        *)
(*                                                                         *)
(* gens[id] is the request id being served, or served: its route ("zip"    *)
(* or "eps"), its sector, its rebuild flag, where its handler is waiting   *)
(* (pc), the status it was answered with (0: no answer), whether the       *)
(* response was closed, and the generation object it made, if any, with    *)
(* the object's aborted flag.  ongoingGenerations maps a key to the id of  *)
(* the request whose generation object is stored under it.  The handlers   *)
(* loop over the tiles of the sector with an await for each tile; the      *)
(* model does not keep the loop's position: an iteration is followed by    *)
(* another or by the end of the loop.                                      *)
(***************************************************************************)

\* './exports'
exportsDir == <<46, 47, 101, 120, 112, 111, 114, 116, 115>>

\* `${sectorCode}_eps.zip` in the exports directory.
cachedPath(sectorCode) ==
    PathJoin(exportsDir, sectorCode \o <<95, 101, 112, 115, 46, 122, 105, 112>>)

\* `${sectorCode}-zip` and `${sectorCode}-eps`
generationKey(sectorCode, route) ==
    sectorCode \o <<45>> \o
        (IF route = "zip" THEN <<122, 105, 112>> ELSE <<101, 112, 115>>)

\* A check that finds no generation in progress, whatever the Map holds.
hasGenerationNever(key) == FALSE

\* ongoingGenerations.has(generationKey)
hasGeneration(key) == key \in DOMAIN ongoingGenerations

\* ongoingGenerations after ongoingGenerations.set(key, generation), the
\* generation object being the one request id made.
setGeneration(key, id) ==
    [k \in DOMAIN ongoingGenerations \cup {key} |->
        IF k = key THEN id ELSE ongoingGenerations[k]]

\* ongoingGenerations after ongoingGenerations.delete(key).
deleteGeneration(key) ==
    [k \in DOMAIN ongoingGenerations \ {key} |-> ongoingGenerations[k]]

\* A request as it arrives.
NewGen(route, sectorCode, rebuild) ==
    [route |-> route, sectorCode |-> sectorCode, rebuild |-> rebuild,
     pc |-> "start", status |-> 0, closed |-> FALSE, registered |-> FALSE,
     aborted |-> FALSE, busy |-> FALSE]

\* gens with the record of request id replaced.
WithGen(id, g) == [i \in DOMAIN gens \cup {id} |-> IF i = id THEN g ELSE gens[i]]

\* The handler of request id is inside its generation: between the
\* registration of its generation object and the end of the handler.
Generating(id) ==
    /\ id \in DOMAIN gens
    /\ gens[id].pc \in {"tiles", "finalize"}

(***************************************************************************)
(* The calls a program makes on one TileLookup instance                    *)
(***************************************************************************)

\* Code units: "A" and "T" (the first and last facet letters), "U" (the
\* letter after T), "m", U+017F (long s, whose upper case is "S"), "0", "1",
\* "9" and ":" (the unit after "9").
Chars == {65, 84, 85, 109, 383, 48, 49, 57, 58}

\* The longest string of arbitrary code units handed to a lookup.
MaxLen == 3

\* The most digits of a repeated-digit tile code handed to a lookup.
MaxDeep == 10

\* The most digits the application lets a user type (validPattern).
MaxAppDigits == 6

Strings(chars, n) == UNION {[1..k -> chars] : k \in 0..n}

ShortNames == Strings(Chars, MaxLen)

\* letter, then n times the digit d.
Repeated(letter, d, n) == [k \in 1..(n + 1) |-> IF k = 1 THEN letter ELSE 48 + d]

DeepNames == {Repeated(l, d, n) : l \in {65, 77, 84}, d \in 1..9, n \in 0..MaxDeep}

\* The example code of the source's comments, "M713289", and its prefixes.
ExampleNames == {SubSeq(<<77, 55, 49, 51, 50, 56, 57>>, 1, n) : n \in 1..7}

FwdNames == ShortNames \cup DeepNames \cup ExampleNames

NoCall == [op |-> "none", name |-> <<>>, p |-> <<0, 0, 0>>, depth |-> 0]

NoRet == [status |-> "none", message |-> "", value |-> <<>>]

\* No earlier call is remembered.
NoSeen == [name |-> <<>>, status |-> "none", message |-> "", value |-> <<>>,
           between |-> FALSE]

Outcome(r, v) == [status |-> r.status, message |-> r.message, value |-> v]

Constructed ==
    /\ this = constructor
    /\ pc = "idle"
    /\ call = NoCall
    /\ ret = NoRet
    /\ seen = NoSeen
    /\ disk = {}
    /\ tiles = <<>>
    /\ req = NoReq
    /\ now = 0
    /\ sectors = <<>>
    /\ sessions = <<>>
    /\ save = NoSave
    /\ calls = 0
    /\ ongoingGenerations = <<>>
    /\ gens = <<>>

\* The remembered call, with the note that another call came after it.
Later(other) ==
    IF seen.status # "none" /\ other THEN [seen EXCEPT !.between = TRUE] ELSE seen

\* A caller invokes tileLookup.nameToLocations(name).
CallNameToLocations(name) ==
    /\ pc = "idle"
    /\ LET r == nameToLocations(this, name)
       IN  /\ this' = r.this
           /\ ret' = Outcome(r, r.value)
    /\ call' = [NoCall EXCEPT !.op = "nameToLocations", !.name = name]
    /\ pc' = "returned"
    /\ seen' = Later(name # seen.name)
    /\ UNCHANGED server

\* A caller invokes tileLookup.nameToFacet(name).
CallNameToFacet(name) ==
    /\ pc = "idle"
    /\ LET r == nameToFacet(this, name)
       IN  /\ this' = r.this
           /\ ret' = Outcome(r, IF r.status = "ok" THEN Coordinates(r) ELSE <<>>)
    /\ call' = [NoCall EXCEPT !.op = "nameToFacet", !.name = name]
    /\ pc' = "returned"
    /\ seen' = Later(TRUE)
    /\ UNCHANGED server

\* The caller is done with the result (or has caught the Error).
Return ==
    /\ pc = "returned"
    /\ pc' = "idle"
    /\ call' = NoCall
    /\ ret' = NoRet
    /\ UNCHANGED <<this, seen>>
    /\ UNCHANGED server

\* A caller invokes tileLookup.locationToName(latitude, longitude, depth):
\* the method declares two parameters, so a third argument is not read.
CallLocationToName(latitude, longitude, depth) ==
    /\ pc = "idle"
    /\ LET r == locationToName(this, latitude, longitude)
       IN  /\ this' = r.this
           /\ ret' = Outcome(r, r.value)
    /\ call' = [NoCall EXCEPT !.op = "locationToName", !.p = <<latitude, longitude, 0>>,
                              !.depth = depth]
    /\ pc' = "returned"
    /\ seen' = Later(TRUE)
    /\ UNCHANGED server

\* A caller invokes tileLookup.pointToName(p, depth).
CallPointToName(p, depth) ==
    /\ pc = "idle"
    /\ LET r == pointToName(this, p, depth)
       IN  /\ this' = r.this
           /\ ret' = Outcome(r, r.value)
    /\ call' = [NoCall EXCEPT !.op = "pointToName", !.p = p, !.depth = depth]
    /\ pc' = "returned"
    /\ seen' = Later(TRUE)
    /\ UNCHANGED server

\* The caller keeps the outcome of a nameToLocations call to compare a
\* later call with.
Remember ==
    /\ pc = "returned"
    /\ call.op = "nameToLocations"
    /\ seen' = [name |-> call.name, status |-> ret.status, message |-> ret.message,
                value |-> ret.value, between |-> FALSE]
    /\ pc' = "idle"
    /\ call' = NoCall
    /\ ret' = NoRet
    /\ UNCHANGED this
    /\ UNCHANGED server

\* The average of three vertices, as a caller computes it.
average(tri) == [c \in 1..3 |-> RoundDiv(tri[1][c] + tri[2][c] + tri[3][c], 3)]

\* A caller that has just received the triangle of a code of at most 6
\* digits asks pointToName for the average of its vertices, with the
\* code's number of digits as depth.
RoundTripPoint ==
    /\ pc = "returned"
    /\ call.op = "nameToFacet"
    /\ ret.status = "ok"
    /\ Len(call.name) - 1 <= MaxAppDigits
    /\ LET p == average(ret.value)
           r == pointToName(this, p, Len(call.name) - 1)
       IN  /\ this' = r.this
           /\ ret' = Outcome(r, r.value)
           /\ call' = [op |-> "pointToName", name |-> call.name, p |-> p,
                       depth |-> Len(call.name) - 1]
    /\ pc' = "returned"
    /\ seen' = Later(TRUE)
    /\ UNCHANGED server

\* The same caller asks locationToName instead, with the latitude and
\* longitude of the average and the number of digits as third argument.
RoundTripLocation ==
    /\ pc = "returned"
    /\ call.op = "nameToFacet"
    /\ ret.status = "ok"
    /\ Len(call.name) - 1 <= MaxAppDigits
    /\ LET g == pointToGeo(average(ret.value))
           r == locationToName(this, g[1], g[2])
       IN  /\ this' = r.this
           /\ ret' = Outcome(r, r.value)
           /\ call' = [op |-> "locationToName", name |-> call.name,
                       p |-> <<g[1], g[2], 0>>, depth |-> Len(call.name) - 1]
    /\ pc' = "returned"
    /\ seen' = Later(TRUE)
    /\ UNCHANGED server

\* The application draws the sub-tiles of tileCode.
CallGetSubTileCoordinates(tileCode) ==
    /\ pc = "idle"
    /\ LET r == getSubTileCoordinates(this, tileCode)
       IN  /\ this' = r.this
           /\ ret' = Outcome(r, r.value)
    /\ call' = [NoCall EXCEPT !.op = "getSubTileCoordinates", !.name = tileCode]
    /\ pc' = "returned"
    /\ seen' = Later(TRUE)
    /\ UNCHANGED server

\* The application asks whether the tile of tileCode is inverted.
CallIsInvertedTile(tileCode) ==
    /\ pc = "idle"
    /\ ret' = [status |-> "ok", message |-> "", value |-> isInvertedTile(tileCode)]
    /\ call' = [NoCall EXCEPT !.op = "isInvertedTile", !.name = tileCode]
    /\ pc' = "returned"
    /\ UNCHANGED <<this, seen>>
    /\ UNCHANGED server

FwdNext ==
    \/ \E name \in FwdNames : CallNameToLocations(name)
    \/ \E name \in FwdNames : CallNameToFacet(name)
    \/ \E tileCode \in FwdNames : CallGetSubTileCoordinates(tileCode)
    \/ \E tileCode \in FwdNames : CallIsInvertedTile(tileCode)
    \/ RoundTripPoint
    \/ RoundTripLocation
    \/ Return

\* Forward lookups only, over the large set of names.
SpecFwd == Constructed /\ [][FwdNext]_vars

\* Code units of the names of the mixed runs: "M", "2" and "0".
HistChars == {77, 50, 48}

\* The longest name of a mixed run.
MaxHistLen == 2

\* The deepest pointToName of a mixed run.
MaxDepth == 2

HistNames == Strings(HistChars, MaxHistLen)

\* Points on shared edges: the sum of vertices 4 and 0 (the edge of faces C
\* and D), the sum of vertices 2 and 0 (the edge of faces A and B), and the
\* sum of points v4 and v9 of face M (the edge of its children 3 and 4).
EdgePoints ==
    {<<-7236, -5257, 14472>>, <<2764, 8507, 14472>>, <<7934, -17889, -160>>}

\* The north pole (a vertex shared by five faces), the zero vector, a point
\* of tile M713289, a point off the unit sphere, a point inside face T and
\* a point whose coordinates are NaN.
HistPoints ==
    {<<0, 0, 10000>>, <<0, 0, 0>>, <<3062, -9205, -2428>>, <<5774, 5774, 5774>>,
     <<6071, 0, -7947>>, <<NaN, NaN, NaN>>} \cup EdgePoints

\* <<latitude, longitude>> in microdegrees.
HistLocations ==
    {<<90000000, 0>>, <<-14050000, -71600000>>, <<0, 180000000>>, <<NaN, 0>>}

Next ==
    \/ \E name \in HistNames : CallNameToLocations(name)
    \/ \E name \in HistNames : CallNameToFacet(name)
    \/ \E l \in HistLocations, depth \in {0, 3, MaxAppDigits} :
           CallLocationToName(l[1], l[2], depth)
    \/ \E p \in HistPoints, depth \in 0..MaxDepth : CallPointToName(p, depth)
    \/ Remember
    \/ Return

\* Any sequence of the four lookups on one instance.
Spec == Constructed /\ [][Next]_vars

\* The most milliseconds the clock advances in a run.
MaxClock == 2

\* "M713111" and "M713112", two tiles of sector "M713".
UploadTileCodes ==
    {<<77, 55, 49, 51, 49, 49, 49>>, <<77, 55, 49, 51, 49, 49, 50>>}

\* ".png"
PngSuffix == <<46, 112, 110, 103>>

\* The names of uploaded files: `${tileCode}.png` as the application names
\* them, and "tile.png".
OriginalNames ==
    {tileCode \o PngSuffix : tileCode \in UploadTileCodes}
        \cup {<<116, 105, 108, 101>> \o PngSuffix}

\* Date.now() does not go back; two reads can be in the same millisecond.
Tick == now' \in {now, IF now < MaxClock THEN now + 1 ELSE now}

\* POST /api/tiles/upload, upload.single('image'): the fileFilter refuses a
\* file that is not image/png and the request ends with the error; a
\* request without a file part goes on without req.file; otherwise the file
\* is written at destination/filename, over any file already there.
Multer(hasFile, png, originalname, tileCode, sectorCode) ==
    /\ req.stage = "none"
    /\ Tick
    /\ IF hasFile /\ ~png
       THEN /\ req' = [NoReq EXCEPT !.stage = "responded", !.route = "upload",
                                    !.status = 500]
            /\ disk' = disk
       ELSE /\ req' = [NoReq EXCEPT !.stage = "stored", !.route = "upload",
                                    !.hasFile = hasFile,
                                    !.path = IF hasFile
                                             THEN FilePath(originalname, now')
                                             ELSE <<>>,
                                    !.tileCode = tileCode,
                                    !.sectorCode = sectorCode]
            /\ disk' = IF hasFile THEN disk \cup {FilePath(originalname, now')}
                       ELSE disk
    /\ UNCHANGED <<tiles, sectors, sessions, saving, generations, lookup>>

\* The handler of POST /api/tiles/upload, from its first line to res.json:
\* the old file of the tile is removed, the metadata stored, the sector
\* created if need be, the tile added to it and its missing tiles worked
\* out again; each of the four storage calls ends in saveToFile.
UploadHandler ==
    /\ req.stage = "stored"
    /\ req.route = "upload"
    /\ IF req.tileCode = <<>> \/ req.sectorCode = <<>> \/ ~req.hasFile
       THEN /\ req' = [req EXCEPT !.stage = "responded", !.status = 400]
            /\ UNCHANGED <<disk, tiles, sectors, save>>
       ELSE IF Substring4(req.tileCode) # req.sectorCode
       THEN /\ req' = [req EXCEPT !.stage = "responded", !.status = 400]
            /\ UNCHANGED <<disk, tiles, sectors, save>>
       ELSE IF req.path \notin disk
       THEN \* fs.readFile rejects, the catch answers 500
            /\ req' = [req EXCEPT !.stage = "responded", !.status = 500]
            /\ UNCHANGED <<disk, tiles, sectors, save>>
       ELSE LET existingTile == HasTile(req.tileCode)
                tileData == [tileCode |-> req.tileCode,
                             sectorCode |-> req.sectorCode,
                             filePath |-> NormalizePath(req.path)]
                created == IF HasSector(sectors, req.sectorCode) THEN sectors
                           ELSE createSector(sectors, NewSector(req.sectorCode))
                added == addTileToSector(created, req.sectorCode, req.tileCode)
                updated == RefreshMissing(added, req.sectorCode)
                save1 == saveToFile(save, Snapshot(sectors, tiles'))
                save2 == IF HasSector(sectors, req.sectorCode) THEN save1
                         ELSE saveToFile(save1, Snapshot(created, tiles'))
                save3 == IF AddsTile(created, req.sectorCode, req.tileCode)
                         THEN saveToFile(save2, Snapshot(added, tiles'))
                         ELSE save2
            IN  /\ disk' = IF existingTile
                           THEN disk \ {tiles[req.tileCode].filePath}
                           ELSE disk
                /\ tiles' = setTile(req.tileCode, tileData)
                /\ sectors' = updated
                /\ save' = saveToFile(save3, Snapshot(updated, tiles'))
                /\ req' = [req EXCEPT !.stage = "responded", !.status = 200,
                                      !.success = TRUE,
                                      !.replaced = existingTile]
    /\ UNCHANGED <<now, sessions, calls, generations, lookup>>

\* GET /api/tiles/:tileCode/exists: a tile whose file is missing from the
\* disk is removed from storage.tiles and reported as not existing.
TileExists(tileCode) ==
    /\ req.stage = "none"
    /\ IF HasTile(tileCode)
       THEN IF tiles[tileCode].filePath \in disk
            THEN /\ req' = [NoReq EXCEPT !.stage = "responded", !.route = "exists",
                                         !.tileCode = tileCode, !.status = 200,
                                         !.success = TRUE]
                 /\ UNCHANGED <<tiles, save>>
            ELSE /\ req' = [NoReq EXCEPT !.stage = "responded", !.route = "exists",
                                         !.tileCode = tileCode, !.status = 200]
                 /\ tiles' = deleteTile(tileCode)
                 /\ save' = saveToFile(save, Snapshot(sectors, tiles'))
       ELSE /\ req' = [NoReq EXCEPT !.stage = "responded", !.route = "exists",
                                    !.tileCode = tileCode, !.status = 200]
            /\ UNCHANGED <<tiles, save>>
    /\ UNCHANGED <<disk, now, sectors, sessions, calls, generations, lookup>>

\* DELETE /api/sectors/:sectorCode: for each tile of the sector's list that
\* has metadata, the file is removed and then the metadata (deleteTile
\* saves); then the sector is deleted (deleteSector saves).  The first save
\* writes the storage as it is after the first deleteTile; the later ones
\* find that write in progress.
DeleteSector(sectorCode) ==
    /\ req.stage = "none"
    /\ IF ~HasSector(sectors, sectorCode)
       THEN /\ req' = [NoReq EXCEPT !.stage = "responded", !.route = "deleteSector",
                                    !.sectorCode = sectorCode, !.status = 404]
            /\ UNCHANGED <<disk, tiles, sectors, save>>
       ELSE LET stored == SelectSeq(sectors[sectorCode].tiles, HasTile)
                gone == {stored[i] : i \in 1..Len(stored)}
                tiles1 == [c \in DOMAIN tiles \ gone |-> tiles[c]]
                save1 == IF stored = <<>> THEN save
                         ELSE saveToFile(save,
                                         Snapshot(sectors, deleteTile(Head(stored))))
                save2 == IF Len(stored) > 1
                         THEN saveToFile(save1, Snapshot(sectors, tiles1))
                         ELSE save1
            IN  /\ disk' = disk \ {tiles[c].filePath : c \in gone}
                /\ tiles' = tiles1
                /\ sectors' = deleteSector(sectors, sectorCode)
                /\ save' = saveToFile(save2, Snapshot(sectors', tiles1))
                /\ req' = [NoReq EXCEPT !.stage = "responded",
                                        !.route = "deleteSector",
                                        !.sectorCode = sectorCode, !.status = 200,
                                        !.success = TRUE]
    /\ UNCHANGED <<now, sessions, calls, generations, lookup>>

\* The client has the response.
Respond ==
    /\ req.stage = "responded"
    /\ req' = NoReq
    /\ UNCHANGED <<disk, tiles, now, sectors, sessions, saving, generations,
                   lookup>>

\* The forms posted to /api/tiles/upload, as <<hasFile, png, originalname,
\* tileCode, sectorCode>>: a PNG file under each name for each tile and its
\* sector, and for the tile "M713111" a form without a file, one whose file
\* is no PNG, one without tileCode, one without sectorCode and one for the
\* sector "M714".
UploadForms ==
    {<<TRUE, TRUE, originalname, tileCode, Substring4(tileCode)>> :
        originalname \in OriginalNames, tileCode \in UploadTileCodes}
    \cup
    {<<f[1], f[2], <<77, 55, 49, 51, 49, 49, 49>> \o PngSuffix, f[3], f[4]>> :
        f \in {<<FALSE, TRUE, <<77, 55, 49, 51, 49, 49, 49>>, <<77, 55, 49, 51>> >>,
               <<TRUE, FALSE, <<77, 55, 49, 51, 49, 49, 49>>, <<77, 55, 49, 51>> >>,
               <<TRUE, TRUE, <<>>, <<77, 55, 49, 51>> >>,
               <<TRUE, TRUE, <<77, 55, 49, 51, 49, 49, 49>>, <<>> >>,
               <<TRUE, TRUE, <<77, 55, 49, 51, 49, 49, 49>>, <<77, 55, 49, 52>> >>}}

UploadNext ==
    \/ \E f \in UploadForms : Multer(f[1], f[2], f[3], f[4], f[5])
    \/ UploadHandler
    \/ \E tileCode \in UploadTileCodes : TileExists(tileCode)
    \/ DeleteSector(<<77, 55, 49, 51>>)
    \/ Respond

\* Requests to the tile server, one at a time.
SpecUpload == Constructed /\ [][UploadNext]_vars

\* The most download requests of a run.
MaxRequests == 2

\* The in-progress check and the registration, with no await between them:
\* the request is answered 409, or its generation object is stored under
\* the key.  A response found closed by the first iteration of the loop
\* ends the generation at once.
Register(id, g) ==
    LET key == generationKey(g.sectorCode, g.route)
    IN  IF hasGeneration(key)
        THEN /\ gens' = WithGen(id, [g EXCEPT !.pc = "done", !.status = 409])
             /\ UNCHANGED ongoingGenerations
        ELSE IF g.closed
        THEN /\ gens' = WithGen(id, [g EXCEPT !.pc = "done", !.registered = TRUE])
             /\ UNCHANGED ongoingGenerations
        ELSE /\ gens' = WithGen(id, [g EXCEPT !.pc = "tiles", !.registered = TRUE])
             /\ ongoingGenerations' = setGeneration(key, id)

\* GET /api/sectors/:sectorCode/tiles-zip and .../eps-11col up to the first
\* await: 404 without the sector, 400 for an incomplete one; an EPS request
\* without rebuild waits for fs.access of the cached file; the others go on
\* to the in-progress check.
GenStart(id, route, sectorCode, rebuild) ==
    /\ id \notin DOMAIN gens
    /\ id = Cardinality(DOMAIN gens) + 1
    /\ id <= MaxRequests
    /\ route = "zip" => ~rebuild
    /\ LET g == [NewGen(route, sectorCode, rebuild) EXCEPT
                    !.busy = hasGeneration(generationKey(sectorCode, route))]
       IN  IF ~HasSector(sectors, sectorCode)
           THEN /\ gens' = WithGen(id, [g EXCEPT !.pc = "done", !.status = 404])
                /\ UNCHANGED ongoingGenerations
           ELSE IF sectors[sectorCode].status # "complete"
           THEN /\ gens' = WithGen(id, [g EXCEPT !.pc = "done", !.status = 400])
                /\ UNCHANGED ongoingGenerations
           ELSE IF route = "eps" /\ ~rebuild
           THEN /\ gens' = WithGen(id, [g EXCEPT !.pc = "access"])
                /\ UNCHANGED ongoingGenerations
           ELSE Register(id, g)
    /\ UNCHANGED <<disk, tiles, req, now, sectors, sessions, saving, lookup>>

\* The EPS handler after fs.access: the cached file is served, or the
\* request goes on to the in-progress check.
EpsAccess(id) ==
    /\ id \in DOMAIN gens
    /\ gens[id].pc = "access"
    /\ IF cachedPath(gens[id].sectorCode) \in disk
       THEN /\ gens' = WithGen(id, [gens[id] EXCEPT !.pc = "done", !.status = 200])
            /\ UNCHANGED ongoingGenerations
       ELSE Register(id, gens[id])
    /\ UNCHANGED <<disk, tiles, req, now, sectors, sessions, saving, lookup>>

\* An iteration of the loop over the tiles finds the generation aborted or
\* the response closed: the entry of the key is deleted and the handler
\* returns without an answer.
GenAbort(id) ==
    /\ id \in DOMAIN gens
    /\ gens[id].pc = "tiles"
    /\ gens[id].aborted \/ gens[id].closed
    /\ gens' = WithGen(id, [gens[id] EXCEPT !.pc = "done"])
    /\ ongoingGenerations' =
           deleteGeneration(generationKey(gens[id].sectorCode, gens[id].route))
    /\ UNCHANGED <<disk, tiles, req, now, sectors, sessions, saving, lookup>>

\* The loops are over: the handler waits for archive.finalize(); the EPS
\* handler has opened the cached file for writing.
GenLoopsEnd(id) ==
    /\ id \in DOMAIN gens
    /\ gens[id].pc = "tiles"
    /\ gens' = WithGen(id, [gens[id] EXCEPT !.pc = "finalize"])
    /\ disk' = IF gens[id].route = "eps"
               THEN disk \cup {cachedPath(gens[id].sectorCode)}
               ELSE disk
    /\ UNCHANGED <<ongoingGenerations, tiles, req, now, sectors, sessions,
                   saving, lookup>>

\* The archive is written: the entry of the key is deleted and the
\* download answered.
GenFinish(id) ==
    /\ id \in DOMAIN gens
    /\ gens[id].pc = "finalize"
    /\ gens' = WithGen(id, [gens[id] EXCEPT !.pc = "done", !.status = 200])
    /\ ongoingGenerations' =
           deleteGeneration(generationKey(gens[id].sectorCode, gens[id].route))
    /\ UNCHANGED <<disk, tiles, req, now, sectors, sessions, saving, lookup>>

\* An await of the generation rejects (a page, the archive or the cached
\* file cannot be written).  The catch of the ZIP handler deletes
\* `${req.params.sectorCode}-zip` and answers 500.  The catch of the EPS
\* handler reads generationKey, a const of the try block, which is not in
\* scope there: the ReferenceError ends the handler before the entry is
\* deleted and before any answer.
GenError(id) ==
    /\ id \in DOMAIN gens
    /\ gens[id].pc \in {"tiles", "finalize"}
    /\ IF gens[id].route = "zip"
       THEN /\ gens' = WithGen(id, [gens[id] EXCEPT !.pc = "done", !.status = 500])
            /\ ongoingGenerations' =
                   deleteGeneration(generationKey(gens[id].sectorCode, "zip"))
       ELSE /\ gens' = WithGen(id, [gens[id] EXCEPT !.pc = "done"])
            /\ UNCHANGED ongoingGenerations
    /\ UNCHANGED <<disk, tiles, req, now, sectors, sessions, saving, lookup>>

\* The client closes the response of request id: res.closed is true, and
\* the 'close' listener of a registered generation marks it aborted.
ClientClose(id) ==
    /\ id \in DOMAIN gens
    /\ gens[id].pc # "done"
    /\ ~gens[id].closed
    /\ gens' = WithGen(id, [gens[id] EXCEPT !.closed = TRUE,
                                          !.aborted = @ \/ gens[id].registered])
    /\ UNCHANGED <<ongoingGenerations, disk, tiles, req, now, sectors, sessions,
                   saving, lookup>>

\* The socket named by the x-socket-id header of request id disconnects:
\* the generations stored for that client are marked aborted.
SocketDisconnect(id) ==
    /\ id \in DOMAIN gens
    /\ \E key \in DOMAIN ongoingGenerations : ongoingGenerations[key] = id
    /\ ~gens[id].aborted
    /\ gens' = WithGen(id, [gens[id] EXCEPT !.aborted = TRUE])
    /\ UNCHANGED <<ongoingGenerations, disk, tiles, req, now, sectors, sessions,
                   saving, lookup>>

\* "M713"
SectorM713 == <<77, 55, 49, 51>>

\* The metadata the upload stores for a tile of sector M713 sent as
\* `${tileCode}.png`.
StoredTile(tileCode) ==
    [tileCode |-> tileCode, sectorCode |-> SectorM713,
     filePath |-> NormalizePath(FilePath(tileCode \o PngSuffix, 0))]

\* The server after the tiles of sector M713 have all been uploaded, each
\* once, and saved.
FullServer ==
    LET all == generateAllTileCodesForSector(SectorM713)
        codes == {all[n] : n \in 1..TotalTiles}
        full == [NewSector(SectorM713) EXCEPT !.tiles = all, !.uploadedTiles = TotalTiles,
                                              !.missingTiles = <<>>,
                                              !.status = "complete"]
    IN  /\ this = constructor
        /\ pc = "idle"
        /\ call = NoCall
        /\ ret = NoRet
        /\ seen = NoSeen
        /\ disk = {StoredTile(c).filePath : c \in codes}
        /\ tiles = [c \in codes |-> StoredTile(c)]
        /\ sectors = [c \in {SectorM713} |-> full]
        /\ save = [NoSave EXCEPT !.file = Snapshot(sectors, tiles)]
        /\ req = NoReq
        /\ now = 0
        /\ sessions = <<>>
        /\ calls = 0
        /\ ongoingGenerations = <<>>
        /\ gens = <<>>

GenNext ==
    \/ \E id \in 1..MaxRequests, route \in {"zip", "eps"},
          sectorCode \in {SectorM713, <<77, 55, 49, 52>>}, rebuild \in BOOLEAN :
           GenStart(id, route, sectorCode, rebuild)
    \/ \E id \in 1..MaxRequests : EpsAccess(id)
    \/ \E id \in 1..MaxRequests : GenAbort(id)
    \/ \E id \in 1..MaxRequests : GenLoopsEnd(id)
    \/ \E id \in 1..MaxRequests : GenFinish(id)
    \/ \E id \in 1..MaxRequests : GenError(id)
    \/ \E id \in 1..MaxRequests : ClientClose(id)
    \/ \E id \in 1..MaxRequests : SocketDisconnect(id)

\* Download requests, interleaved at their awaits, on a server that holds
\* the complete sector M713.
SpecGen == FullServer /\ [][GenNext]_vars

\* "M7131", a code that begins with the sector code "M713" and is not one of
\* the sector's tile codes.
ShortCode == <<77, 55, 49, 51, 49>>

\* The tile codes a client filling sector "M713" posts next: the first tile
\* the sector still misses, or the short code.
FillCodes ==
    LET missing == IF HasSector(sectors, SectorM713)
                   THEN sectors[SectorM713].missingTiles
                   ELSE generateAllTileCodesForSector(SectorM713)
    IN  {ShortCode} \cup (IF missing = <<>> THEN {} ELSE {Head(missing)})

FillNext ==
    \/ \E tileCode \in FillCodes :
          Multer(TRUE, TRUE, tileCode \o PngSuffix, tileCode, SectorM713)
    \/ UploadHandler
    \/ Respond

\* A sector filled tile by tile through POST /api/tiles/upload.
SpecFill == Constructed /\ [][FillNext]_vars

\* The most calls of the storage's mutating methods in a run.
MaxMutations == 4

\* A call of a mutating method of the storage is counted.
Mutation ==
    /\ calls < MaxMutations
    /\ calls' = calls + 1

\* storage.createSector(sectorData)
CallCreateSector(sectorCode) ==
    /\ Mutation
    /\ sectors' = createSector(sectors, NewSector(sectorCode))
    /\ save' = saveToFile(save, Snapshot(sectors', tiles))
    /\ UNCHANGED <<disk, tiles, req, now, sessions, generations, lookup>>

\* storage.updateSector(sectorCode, updates), with the updates of the
\* upload handler: nothing is changed or saved for a sector not stored.
CallUpdateSector(sectorCode) ==
    /\ Mutation
    /\ IF HasSector(sectors, sectorCode)
       THEN /\ sectors' = RefreshMissing(sectors, sectorCode)
            /\ save' = saveToFile(save, Snapshot(sectors', tiles))
       ELSE UNCHANGED <<sectors, save>>
    /\ UNCHANGED <<disk, tiles, req, now, sessions, generations, lookup>>

\* storage.deleteSector(sectorCode): saved when a sector was deleted.
CallDeleteSector(sectorCode) ==
    /\ Mutation
    /\ IF HasSector(sectors, sectorCode)
       THEN /\ sectors' = deleteSector(sectors, sectorCode)
            /\ save' = saveToFile(save, Snapshot(sectors', tiles))
       ELSE UNCHANGED <<sectors, save>>
    /\ UNCHANGED <<disk, tiles, req, now, sessions, generations, lookup>>

\* storage.setTile(tileCode, tileData)
CallSetTile(tileCode) ==
    /\ Mutation
    /\ tiles' = setTile(tileCode, StoredTile(tileCode))
    /\ save' = saveToFile(save, Snapshot(sectors, tiles'))
    /\ UNCHANGED <<disk, req, now, sectors, sessions, generations, lookup>>

\* storage.deleteTile(tileCode): saved when a tile was deleted.
CallDeleteTile(tileCode) ==
    /\ Mutation
    /\ IF HasTile(tileCode)
       THEN /\ tiles' = deleteTile(tileCode)
            /\ save' = saveToFile(save, Snapshot(sectors, tiles'))
       ELSE UNCHANGED <<tiles, save>>
    /\ UNCHANGED <<disk, req, now, sectors, sessions, generations, lookup>>

\* storage.addTileToSector(sectorCode, tileCode): saved when the tile was
\* added.
CallAddTileToSector(sectorCode, tileCode) ==
    /\ Mutation
    /\ IF AddsTile(sectors, sectorCode, tileCode)
       THEN /\ sectors' = addTileToSector(sectors, sectorCode, tileCode)
            /\ save' = saveToFile(save, Snapshot(sectors', tiles))
       ELSE UNCHANGED <<sectors, save>>
    /\ UNCHANGED <<disk, tiles, req, now, sessions, generations, lookup>>

\* save.writes without its i-th write.
Settled(i) ==
    [save EXCEPT !.writes = SubSeq(@, 1, i - 1) \o SubSeq(@, i + 1, Len(@))]

\* fs.writeFile resolves: the file holds the data of the write, and the
\* finally block of saveToFile runs.
WriteDone ==
    /\ \E i \in 1..Len(save.writes) :
          save' = saveToFileFinally([Settled(i) EXCEPT !.file = save.writes[i]])
    /\ UNCHANGED <<disk, tiles, req, now, sectors, sessions, calls, generations,
                   lookup>>

\* fs.writeFile rejects: the catch logs the error, the file is as it was,
\* and the finally block of saveToFile runs.
WriteFail ==
    /\ \E i \in 1..Len(save.writes) : save' = saveToFileFinally(Settled(i))
    /\ UNCHANGED <<disk, tiles, req, now, sectors, sessions, calls, generations,
                   lookup>>

\* The callback of setImmediate runs: saveToFile, with the storage as it is
\* now.
Immediate ==
    /\ save.immediates > 0
    /\ save' = saveToFile([save EXCEPT !.immediates = @ - 1],
                          Snapshot(sectors, tiles))
    /\ UNCHANGED <<disk, tiles, req, now, sectors, sessions, calls, generations,
                   lookup>>

\* The calls that change the storage, on sector "M713" and two of its tiles.
Mutate ==
    \/ CallCreateSector(SectorM713)
    \/ CallUpdateSector(SectorM713)
    \/ CallDeleteSector(SectorM713)
    \/ \E tileCode \in UploadTileCodes : CallSetTile(tileCode)
    \/ \E tileCode \in UploadTileCodes : CallDeleteTile(tileCode)
    \/ \E tileCode \in UploadTileCodes : CallAddTileToSector(SectorM713, tileCode)

SaveNext ==
    \/ Mutate
    \/ WriteDone
    \/ WriteFail
    \/ Immediate

\* The storage under any calls of its mutating methods, with writes that
\* succeed or fail.
SpecSave == Constructed /\ [][SaveNext]_vars

SaveLiveNext ==
    \/ Mutate
    \/ WriteDone
    \/ Immediate

\* The storage when every write succeeds: a write that was started settles,
\* and the event loop runs a callback that setImmediate has queued.
SpecSaveLive ==
    Constructed /\ [][SaveLiveNext]_vars
        /\ WF_vars(WriteDone) /\ WF_vars(Immediate)

\* The most sessions created in a run.
MaxSessions == 2

\* The most tile codes a session's list grows to.
MaxSessionTiles == 2

\* POST /api/sessions/create: a session with a fresh id.
CreateSession(sectorCode) ==
    /\ req.stage = "none"
    /\ calls < MaxSessions
    /\ calls' = calls + 1
    /\ sessions' = createSession(sessions, NewSession(calls + 1, sectorCode))
    /\ UNCHANGED <<disk, tiles, req, now, sectors, save, generations, lookup>>

\* The list of the session can take one more code (a session not stored has
\* no list).
Room(sessionId) ==
    HasSession(sessions, sessionId)
        => Len(sessions[sessionId].tiles) < MaxSessionTiles

\* POST /api/upload-tile, upload.single('image'): the file `${tileCode}.png`
\* is written at destination/filename, over any file already there; the
\* sessionId 0 is a form without sessionId.
MulterLegacy(originalname, tileCode, sessionId) ==
    /\ req.stage = "none"
    /\ Room(sessionId)
    /\ req' = [NoReq EXCEPT !.stage = "stored", !.route = "legacy",
                            !.hasFile = TRUE,
                            !.path = FilePath(originalname, now),
                            !.tileCode = tileCode, !.sessionId = sessionId]
    /\ disk' = disk \cup {FilePath(originalname, now)}
    /\ UNCHANGED <<tiles, now, sectors, sessions, saving, generations, lookup>>

\* The handler of POST /api/upload-tile: the metadata of the tile are
\* stored, with the session as the only one using the tile, and the tile is
\* added to the session.
LegacyUploadHandler ==
    /\ req.stage = "stored"
    /\ req.route = "legacy"
    /\ IF req.sessionId = 0 \/ req.tileCode = <<>> \/ ~req.hasFile
       THEN /\ req' = [req EXCEPT !.stage = "responded", !.status = 400]
            /\ UNCHANGED <<tiles, sessions, save>>
       ELSE IF req.path \notin disk
       THEN \* fs.readFile rejects, the catch answers 500
            /\ req' = [req EXCEPT !.stage = "responded", !.status = 500]
            /\ UNCHANGED <<tiles, sessions, save>>
       ELSE LET tileData == [tileCode |-> req.tileCode,
                             filePath |-> NormalizePath(req.path),
                             usedBySessions |-> <<req.sessionId>>]
            IN  /\ tiles' = setTile(req.tileCode, tileData)
                /\ save' = saveToFile(save, Snapshot(sectors, tiles'))
                /\ sessions' = incrementSessionProgress(
                                   addTileToSession(sessions, req.sessionId,
                                                    req.tileCode),
                                   req.sessionId)
                /\ req' = [req EXCEPT !.stage = "responded", !.status = 200,
                                      !.success = TRUE]
    /\ UNCHANGED <<disk, now, sectors, calls, generations, lookup>>

\* GET /api/tile-exists/:tileCode?sessionId=...: a tile whose file is
\* missing is removed from storage.tiles; a tile that exists is noted as
\* used by the session, and added to it, when the session exists and is not
\* yet among the tile's usedBySessions.
TileExistsLegacy(tileCode, sessionId) ==
    /\ req.stage = "none"
    /\ Room(sessionId)
    /\ req' = [NoReq EXCEPT !.stage = "responded", !.route = "legacyExists",
                            !.tileCode = tileCode, !.sessionId = sessionId,
                            !.status = 200,
                            !.success = HasTile(tileCode)
                                        /\ tiles[tileCode].filePath \in disk]
    /\ IF ~HasTile(tileCode)
       THEN UNCHANGED <<tiles, sessions, save>>
       ELSE IF tiles[tileCode].filePath \notin disk
       THEN /\ tiles' = deleteTile(tileCode)
            /\ save' = saveToFile(save, Snapshot(sectors, tiles'))
            /\ UNCHANGED sessions
       ELSE IF /\ sessionId # 0
               /\ HasSession(sessions, sessionId)
               /\ "usedBySessions" \in DOMAIN tiles[tileCode]
               /\ ~Includes(tiles[tileCode].usedBySessions, sessionId)
       THEN /\ tiles' = [tiles EXCEPT ![tileCode].usedBySessions =
                                         Append(@, sessionId)]
            /\ save' = saveToFile(save, Snapshot(sectors, tiles'))
            /\ sessions' = incrementSessionProgress(
                               addTileToSession(sessions, sessionId, tileCode),
                               sessionId)
       ELSE UNCHANGED <<tiles, sessions, save>>
    /\ UNCHANGED <<disk, now, sectors, calls, generations, lookup>>

RECURSIVE RemoveTiles(_, _, _)
\* The loop of DELETE /api/sessions/:sessionId over session.tiles, on
\* st = [tiles, disk, save]: the session is taken out of the usedBySessions
\* of each tile that has metadata; a tile left with no session loses its
\* file and its metadata, another is stored again.
RemoveTiles(st, list, sessionId) ==
    IF list = <<>> THEN st
    ELSE LET tileCode == Head(list)
             after ==
                 IF tileCode \notin DOMAIN st.tiles THEN st
                 ELSE LET used == SelectSeq(st.tiles[tileCode].usedBySessions,
                                            LAMBDA id : id # sessionId)
                          less == [c \in DOMAIN st.tiles \ {tileCode} |->
                                      st.tiles[c]]
                          kept == [st.tiles EXCEPT
                                      ![tileCode].usedBySessions = used]
                      IN  IF used = <<>>
                          THEN [tiles |-> less,
                                disk |-> st.disk \ {st.tiles[tileCode].filePath},
                                save |-> saveToFile(st.save,
                                                    Snapshot(sectors, less))]
                          ELSE [tiles |-> kept, disk |-> st.disk,
                                save |-> saveToFile(st.save,
                                                    Snapshot(sectors, kept))]
         IN  RemoveTiles(after, Tail(list), sessionId)

\* DELETE /api/sessions/:sessionId: the tiles of the session are removed or
\* updated, then the session is deleted (its upload folder
\* uploads/<sessionId> holds no file).
DeleteSession(sessionId) ==
    /\ req.stage = "none"
    /\ IF ~HasSession(sessions, sessionId)
       THEN /\ req' = [NoReq EXCEPT !.stage = "responded",
                                    !.route = "deleteSession",
                                    !.sessionId = sessionId, !.status = 404]
            /\ UNCHANGED <<disk, tiles, sessions, save>>
       ELSE LET st == RemoveTiles([tiles |-> tiles, disk |-> disk, save |-> save],
                                  sessions[sessionId].tiles, sessionId)
            IN  /\ tiles' = st.tiles
                /\ disk' = st.disk
                /\ save' = st.save
                /\ sessions' = deleteSession(sessions, sessionId)
                /\ req' = [NoReq EXCEPT !.stage = "responded",
                                        !.route = "deleteSession",
                                        !.sessionId = sessionId, !.status = 200,
                                        !.success = TRUE]
    /\ UNCHANGED <<now, sectors, calls, generations, lookup>>

\* The session ids of the requests: none (0), and the ids of the sessions.
SessionIds == 0..MaxSessions

SessionsNext ==
    \/ CreateSession(SectorM713)
    \/ \E tileCode \in UploadTileCodes, sessionId \in SessionIds :
          MulterLegacy(tileCode \o PngSuffix, tileCode, sessionId)
    \/ LegacyUploadHandler
    \/ \E tileCode \in UploadTileCodes, sessionId \in SessionIds :
          TileExistsLegacy(tileCode, sessionId)
    \/ \E sessionId \in 1..MaxSessions : DeleteSession(sessionId)
    \/ Respond

\* The legacy session routes of the tile server, one request at a time.
SpecSessions == Constructed /\ [][SessionsNext]_vars

(***************************************************************************)
(* Properties of the forward lookup                                        *)
(***************************************************************************)

\* c is one of A-T, compared without regard to case.
IsFacetLetter(c) == \E k \in 65..84 : UpperUnit(c) = k

\* c is one of the digits 1-9.
IsDigit19(c) == c >= 49 /\ c <= 57

\* One letter A-T followed by digits 1-9.
ValidName(name) ==
    /\ Len(name) >= 1
    /\ IsFacetLetter(name[1])
    /\ \A i \in 2..Len(name) : IsDigit19(name[i])

\* The call `op` has just returned or thrown.
Done(op) == pc = "returned" /\ call.op = op

\* C1: nameToLocations throws the facet-letter Error, and returns nothing,
\* whenever the first character of the code is not one of A-T in either
\* case (the empty string has no first character) - also when later
\* characters are bad too; its message is not the digit Error's.
C1_FacetLetterError ==
    (Done("nameToLocations")
        /\ (call.name = <<>> \/ ~IsFacetLetter(call.name[1])))
    => /\ ret = [status |-> "throw", message |-> FacetLetterMessage, value |-> <<>>]
       /\ ret.message # DigitMessage

\* A bad first character followed by a bad digit was rejected.
C1_Witness ==
    /\ Done("nameToLocations")
    /\ Len(call.name) >= 2
    /\ ~IsFacetLetter(call.name[1])
    /\ ~IsDigit19(call.name[2])
    /\ ret.status = "throw"

\* C2: nameToLocations throws the digit Error, and returns nothing, whenever
\* the first character is a facet letter and some later character, at any
\* index, is not one of 1-9.
C2_DigitError ==
    (Done("nameToLocations")
        /\ call.name # <<>>
        /\ IsFacetLetter(call.name[1])
        /\ \E i \in 2..Len(call.name) : ~IsDigit19(call.name[i]))
    => ret = [status |-> "throw", message |-> DigitMessage, value |-> <<>>]

\* A code whose only bad character comes after a good digit was rejected.
C2_Witness ==
    /\ Done("nameToLocations")
    /\ Len(call.name) = 3
    /\ IsFacetLetter(call.name[1])
    /\ IsDigit19(call.name[2])
    /\ ~IsDigit19(call.name[3])
    /\ ret.status = "throw"
    /\ ret.message = DigitMessage

\* The codes of name's length that differ from it in one digit.
OneDigitVariants(name) ==
    {[name EXCEPT ![i] = 48 + d] : i \in 2..Len(name), d \in 1..9} \ {name}

\* The valid codes of name's length with another digit somewhere.
OtherCodes(name) ==
    OneDigitVariants(name)
        \cup {n \in FwdNames : /\ Len(n) = Len(name)
                               /\ ValidName(n)
                               /\ \E i \in 2..Len(n) : n[i] # name[i]}

\* The value is three <<lat, lon>> pairs.
ThreePairs(value) ==
    /\ Len(value) = 3
    /\ \A i \in 1..3 : Len(value[i]) = 2

\* The triangle returned differs from that of every other code of the
\* same length.
Distinct(name, value) ==
    \A n \in OtherCodes(name) : nameToLocations(this, n).value # value

TenPoints(tri) ==
    [k \in 1..10 |->
        IF k <= 3 THEN tri[k]
        ELSE interpVec(At(tri, At(At(subvertTable, k - 4), 0)),
                       At(tri, At(At(subvertTable, k - 4), 1)),
                       At(tri, At(At(subvertTable, k - 4), 2)))]

\* The child `digit` of a triangle: the points subface selects.
Child(tri, digit) ==
    With(TenPoints(tri),
         LAMBDA P : [i \in 1..3 |-> At(P, At(At(subfaceTable, digit), i - 1))])

\* The triangle of a valid code: the face's vertices, subdivided by each
\* of the digits from index i on, left to right.
RECURSIVE Descend(_, _, _)
Descend(tri, name, i) ==
    IF i > Len(name) THEN tri
    ELSE With(Child(tri, name[i] - 48), LAMBDA t : Descend(t, name, i + 1))

FaceTriangle(letter) ==
    [i \in 1..3 |-> At(vicoTable, At(At(ficoTable, UpperUnit(letter) - 65), i - 1))]

\* name without its last character.
Parent(name) == SubSeq(name, 1, Len(name) - 1)

\* C4: nameToFacet of a valid code is the face's three table vertices, in
\* table order, with subface[digit] applied over the ten points of the
\* current triangle for each digit from left to right; a single letter
\* gives the table vertices themselves, and corner i of code+d is point
\* subface[d][i] of the triangle of code.
C4_Selection ==
    (Done("nameToFacet") /\ ValidName(call.name))
    => /\ ret.status = "ok"
       /\ ret.value = Descend(FaceTriangle(call.name[1]), call.name, 2)
       /\ Len(call.name) = 1 => ret.value = FaceTriangle(call.name[1])
       /\ Len(call.name) > 1 =>
              ret.value = Child(Coordinates(nameToFacet(this, Parent(call.name))),
                                call.name[Len(call.name)] - 48)

\* The triangle of a code of three digits, the last one a child whose
\* corners are all derived points, was returned.
C4_Witness ==
    /\ Done("nameToFacet")
    /\ ValidName(call.name)
    /\ Len(call.name) = 4
    /\ call.name[4] = 50
    /\ ret.status = "ok"

\* The winding of a triangle of coordinates: the sign of
\* dot(cross(t0, t1), t2); 0 when the triangle has no area.
Orientation(tri) ==
    LET d == dot(cross(tri[1], tri[2]), tri[3])
    IN  IF d.hi > 0 \/ (d.hi = 0 /\ d.lo > 0) THEN 1
        ELSE IF d.hi = 0 /\ d.lo = 0 THEN 0
        ELSE -1

\* The triangle nameToFacet gives for name followed by the digit d.
ChildOf(name, d) == Coordinates(nameToFacet(this, Append(name, 48 + d)))

\* Every child of the code has area and the winding of the triangle.
ChildrenKeepWinding(name, tri) ==
    \A d \in 1..9 :
        /\ Orientation(ChildOf(name, d)) # 0
        /\ Orientation(ChildOf(name, d)) = Orientation(tri)

OtherCase(name) ==
    [name EXCEPT ![1] = IF name[1] >= 97 THEN name[1] - 32 ELSE name[1] + 32]

\* A letter A-T or a-t followed by digits 1-9.
LetterCode(name) ==
    /\ Len(name) >= 1
    /\ name[1] \in (65..84) \cup (97..116)
    /\ \A i \in 2..Len(name) : IsDigit19(name[i])

\* C17: for every valid code, nameToLocations of the code with a lowercase
\* first letter returns the same three pairs as with the uppercase letter.
C17_CaseInsensitive ==
    (Done("nameToLocations") /\ LetterCode(call.name))
    => /\ ret.status = "ok"
       /\ nameToLocations(this, OtherCase(call.name)).status = "ok"
       /\ nameToLocations(this, OtherCase(call.name)).value = ret.value

\* A code with a lowercase letter and a digit was looked up.
C17_Witness ==
    /\ Done("nameToLocations")
    /\ Len(call.name) >= 2
    /\ call.name[1] = 109
    /\ LetterCode(call.name)
    /\ ret.status = "ok"

\* C18: for every valid parent code, getSubTileCoordinates returns exactly
\* 9 entries, in digit order, with the codes parent+"1" .. parent+"9"; the
\* coordinates of each entry are the three corners nameToLocations returns
\* for the child, in the same order, each as [lon, lat], and then the first
\* corner again.
C18_SubTiles ==
    (Done("getSubTileCoordinates") /\ LetterCode(call.name))
    => /\ Len(ret.value) = 9
       /\ \A i \in 1..9 :
              LET child == call.name \o <<48 + i>>
                  loc == nameToLocations(this, child)
              IN  /\ ret.value[i].code = child
                  /\ loc.status = "ok"
                  /\ Len(ret.value[i].coordinates) = 4
                  /\ \A k \in 1..3 :
                         /\ ret.value[i].coordinates[k][1] = loc.value[k][2]
                         /\ ret.value[i].coordinates[k][2] = loc.value[k][1]
                  /\ ret.value[i].coordinates[4] = ret.value[i].coordinates[1]

\* The sub-tiles of "M713" were asked for: nine entries came back, and the
\* first corner of the first has a latitude other than its longitude.
C18_Witness ==
    /\ Done("getSubTileCoordinates")
    /\ call.name = <<77, 55, 49, 51>>
    /\ Len(ret.value) = 9
    /\ ret.value[1].coordinates[1][1] # ret.value[1].coordinates[1][2]

(***************************************************************************)
(* Properties of the subdivision and face tables                           *)
(***************************************************************************)

\* The weight triple of corner k of a triangle.
E(k) == [c \in 1..3 |-> IF c = k + 1 THEN 1 ELSE 0]

\* Where point k of the ten lies in its triangle: how many times each
\* corner enters the sum interp normalises (a corner itself counts three
\* times), read from this.subvert.
Lattice(k) ==
    IF k < 3 THEN [c \in 1..3 |-> 3 * E(k)[c]]
    ELSE LET s == At(this.subvert, k - 3)
         IN  [c \in 1..3 |-> E(At(s, 0))[c] + E(At(s, 1))[c] + E(At(s, 2))[c]]

\* The weight triples with sum n.
LatticePoints(n) ==
    {w \in [1..3 -> 0..n] : w[1] + w[2] + w[3] = n}

\* The corner points (indices 0-9) of child d, in this.subface order.
Corners(d) == At(this.subface, d)

\* The places of the corners of child d.
Cell(d) == [i \in 1..3 |-> Lattice(At(Corners(d), i - 1))]

\* The directed edges of child d, as pairs of point indices.
Edges(d) ==
    {<<At(Corners(d), 0), At(Corners(d), 1)>>,
     <<At(Corners(d), 1), At(Corners(d), 2)>>,
     <<At(Corners(d), 2), At(Corners(d), 0)>>}

\* The small triangles of a triangle cut in three along each side: six
\* standing like the triangle and three standing the other way.
UnitCells ==
    {{[c \in 1..3 |-> q[c] + E(i)[c]] : i \in 0..2} : q \in LatticePoints(2)}
    \cup {{[c \in 1..3 |-> q[c] + 1 - E(i)[c]] : i \in 0..2} : q \in LatticePoints(1)}

\* Points j and k are neighbours: one step apart along a side direction.
Neighbours(j, k) ==
    \E a, b \in 0..2 :
        /\ a # b
        /\ \A c \in 1..3 : Lattice(j)[c] - Lattice(k)[c] = E(a)[c] - E(b)[c]

\* The segment between points j and k lies on a side of the triangle.
OnBoundary(j, k) == \E c \in 1..3 : Lattice(j)[c] = 0 /\ Lattice(k)[c] = 0

\* The children with the directed edge from j to k.
Having(j, k) == {d \in 1..9 : <<j, k>> \in Edges(d)}

\* The nine children are the nine small triangles, each once, and their
\* edges pair up: an inner segment belongs to two children that run along
\* it in opposite directions, a segment of a side to one child.
TablesTile ==
    /\ {Lattice(k) : k \in 0..9} = LatticePoints(3)
    /\ {{Cell(d)[i] : i \in 1..3} : d \in 1..9} = UnitCells
    /\ Cardinality(UnitCells) = 9
    /\ \A d \in 1..9 : \A e \in Edges(d) : Neighbours(e[1], e[2])
    /\ \A j, k \in 0..9 :
           (j < k /\ Neighbours(j, k)) =>
               IF OnBoundary(j, k)
               THEN Cardinality(Having(j, k) \cup Having(k, j)) = 1
               ELSE /\ Cardinality(Having(j, k)) = 1
                    /\ Cardinality(Having(k, j)) = 1
                    /\ Having(j, k) # Having(k, j)

\* C8: the nine triangles of parent+1 .. parent+9 tile the triangle of a
\* valid parent code: every corner nameToFacet gives a child is the point
\* of the parent's ten that subface names, every segment between
\* neighbouring points inside the parent is an edge of exactly two
\* children, every segment on a side of the parent is an edge of exactly
\* one, and the children are the nine small triangles, each once.
C8_ChildrenTile ==
    (Done("nameToFacet") /\ ValidName(call.name))
    => /\ \A d \in 1..9 : \A i \in 1..3 :
              ChildOf(call.name, d)[i] = At(TenPoints(ret.value), At(Corners(d), i - 1))
       /\ TablesTile

\* The triangle of a code with digits, itself a child, was returned, and
\* its ten points are ten different places.
C8_Witness ==
    /\ Done("nameToFacet")
    /\ ValidName(call.name)
    /\ Len(call.name) = 3
    /\ ret.status = "ok"
    /\ Cardinality({TenPoints(ret.value)[k] : k \in 1..10}) = 10

\* The directed edges of face f, as pairs of vertex indices.
FaceEdges(f) ==
    {<<At(At(this.fico, f), 0), At(At(this.fico, f), 1)>>,
     <<At(At(this.fico, f), 1), At(At(this.fico, f), 2)>>,
     <<At(At(this.fico, f), 2), At(At(this.fico, f), 0)>>}

\* The coordinates of the corners of face f.
FaceCorners(f) == [i \in 1..3 |-> At(this.vico, At(At(this.fico, f), i - 1))]

\* C9: the 20 faces are consistently oriented and closed: each face is
\* three distinct vertex indices in 0..11, every edge of a face is an edge
\* of exactly two faces, which run along it in opposite directions, each of
\* the 12 vertices is a corner of exactly 5 faces, and all faces have the
\* same winding about the origin.
C9_FacesClosed ==
    /\ Len(this.fico) = 20
    /\ Len(this.vico) = 12
    /\ \A f \in 0..19 :
           /\ Len(At(this.fico, f)) = 3
           /\ \A i \in 0..2 : At(At(this.fico, f), i) \in 0..11
           /\ Cardinality({At(At(this.fico, f), i) : i \in 0..2}) = 3
    /\ \A f \in 0..19 : \A e \in FaceEdges(f) :
           /\ {g \in 0..19 : e \in FaceEdges(g)} = {f}
           /\ Cardinality({g \in 0..19 : <<e[2], e[1]>> \in FaceEdges(g)}) = 1
    /\ \A v \in 0..11 :
           Cardinality({f \in 0..19 : \E i \in 0..2 : At(At(this.fico, f), i) = v}) = 5
    /\ \A f \in 0..19 : Orientation(FaceCorners(f)) = 1

\* The vertices of a face were handed out for a single letter.
C9_Witness ==
    /\ Done("nameToFacet")
    /\ Len(call.name) = 1
    /\ ret.status = "ok"
    /\ \E f \in 0..19 : ret.value = FaceCorners(f) /\ At(this.facets, f) = ToUpperCase(call.name)

\* Child d stands like its parent: corner i of the child lies from the
\* child's other corners where corner i of the parent lies from the rest.
Upright(d) ==
    \E q \in LatticePoints(2) :
        \A i \in 0..2 : \A c \in 1..3 : Cell(d)[i + 1][c] = q[c] + E(i)[c]

\* Child d is inverted: each corner points the opposite way to the
\* parent's corner of the same index.
Inverted(d) ==
    \E q \in LatticePoints(1) :
        \A i \in 0..2 : \A c \in 1..3 : Cell(d)[i + 1][c] = q[c] + 1 - E(i)[c]

\* The mean of the corners of a triangle of coordinates.
Centre(tri) ==
    [c \in 1..3 |-> RoundDiv(tri[1][c] + tri[2][c] + tri[3][c], 3)]

\* How corner i of the child points, seen from the child's centre, against
\* how corner i of the parent points from the parent's: 1 the same way,
\* -1 the opposite way.
Pointing(child, parent, i) ==
    LET a == [c \in 1..3 |-> child[i][c] - Centre(child)[c]]
        b == [c \in 1..3 |-> parent[i][c] - Centre(parent)[c]]
    IN  Sign(a[1] * b[1] + a[2] * b[2] + a[3] * b[3])

\* C10 as claimed: facet 2 is the one child inverted relative to its
\* parent.
C10_OnlyFacet2Inverted ==
    {d \in 1..9 : Inverted(d)} = {2}

\* C10, amended: facets 3, 6 and 8 are the children inverted relative to
\* the parent; facet 2, like facets 1, 4, 5, 7 and 9, stands like the
\* parent, and lies in the middle of the side opposite corner 0.  The
\* triangles nameToFacet gives for codes of at most 6 digits point
\* accordingly.
C10_Facets368Inverted ==
    /\ {d \in 1..9 : Inverted(d)} = {3, 6, 8}
    /\ {d \in 1..9 : Upright(d)} = {1, 2, 4, 5, 7, 9}
    /\ \A i \in 1..3 : Cell(2)[i][1] <= 1
    /\ (Done("nameToFacet") /\ ValidName(call.name) /\ Len(call.name) - 1 < MaxAppDigits)
       => \A d \in 1..9 : \A i \in 1..3 :
              Pointing(ChildOf(call.name, d), ret.value, i)
                  = IF d \in {3, 6, 8} THEN -1 ELSE 1

\* The triangle of a code of 5 digits was returned; of its children of 6
\* digits, child 2 points as it does and child 3 points against it.
C10_Witness ==
    /\ Done("nameToFacet")
    /\ ValidName(call.name)
    /\ Len(call.name) = MaxAppDigits
    /\ ret.status = "ok"
    /\ Pointing(ChildOf(call.name, 2), ret.value, 1) = 1
    /\ Pointing(ChildOf(call.name, 3), ret.value, 1) = -1

\* The last character of a code is a digit 1-9 whose child the subdivision
\* table places inverted in its parent.
EndsInverted(name) ==
    /\ Len(name) >= 1
    /\ IsDigit19(name[Len(name)])
    /\ Inverted(name[Len(name)] - 48)

\* C19: isInvertedTile(code) is true exactly for the codes whose last digit
\* selects, in the subdivision table, a child inverted relative to its
\* parent; these are the digits 3, 6 and 8 and no other.
C19_InvertedDigits ==
    Done("isInvertedTile")
    => /\ ret.value = EndsInverted(call.name)
       /\ {d \in 1..9 : Inverted(d)} = {3, 6, 8}

\* isInvertedTile answered true for a valid code of at least one digit.
C19_Witness ==
    /\ Done("isInvertedTile")
    /\ LetterCode(call.name)
    /\ Len(call.name) >= 2
    /\ ret.value = TRUE

(***************************************************************************)
(* Properties of the reverse lookup                                        *)
(***************************************************************************)

\* The digits of a returned code: the characters after the letter.
DigitsOf(code) == Len(code) - 1

\* The point a reverse lookup was asked about.
Asked ==
    IF call.op = "locationToName" THEN geoToPoint(call.p[1], call.p[2]) ELSE call.p

\* A reverse lookup has just returned.
DoneReverse == Done("pointToName") \/ Done("locationToName")

\* Base face f passes the containment test for p.
FacePasses(f, p) ==
    within(p, FaceCorners(f)[1], FaceCorners(f)[2], FaceCorners(f)[3])

\* The levels a reverse lookup descends at most: locationToName passes 6
\* to pointToName whatever depth it was called with.
Levels == IF call.op = "locationToName" THEN 6 ELSE call.depth

\* C11 as claimed: locationToName(lat, lon, depth) returns a code with at
\* most depth digits after the letter, for every requested depth 0..6.
C11_AtMostDepth ==
    (Done("locationToName") /\ ret.status = "ok")
    => DigitsOf(ret.value) <= call.depth

\* C11, amended: pointToName(p, depth) returns a code with at most depth
\* digits; locationToName has no depth parameter: whatever depth it is
\* called with, it returns what pointToName gives for depth 6, a code of
\* at most 6 digits.
C11_AtMostLevels ==
    /\ (DoneReverse /\ ret.status = "ok") => DigitsOf(ret.value) <= Levels
    /\ Done("locationToName") =>
           /\ ret.status = pointToName(this, Asked, 6).status
           /\ ret.value = pointToName(this, Asked, 6).value

\* locationToName was called with depth 3 and returned a code of 6 digits.
C11_Witness ==
    /\ Done("locationToName")
    /\ call.depth = 3
    /\ ret.status = "ok"
    /\ DigitsOf(ret.value) = 6

\* C12: pointToName and locationToName never throw; they return null
\* exactly when none of the 20 base faces passes the containment test for
\* the point, and a string otherwise.
C12_NullIffNoFace ==
    DoneReverse
    => /\ ret.status \in {"ok", "null"}
       /\ ret.status = "null" <=> ~\E f \in 0..19 : FacePasses(f, Asked)
       /\ ret.status = "ok" => Len(ret.value) >= 1

\* locationToName gave null for a latitude that is NaN, a point no face
\* contains.
C12_Witness ==
    /\ Done("locationToName")
    /\ ret.status = "null"
    /\ HasNaN(Asked)

\* The letter and the first k digits of a code.
Prefix(code, k) == SubSeq(code, 1, k + 1)

\* The triangle of a code, by the forward subdivision.
TriangleOf(code) == Descend(FaceTriangle(code[1]), code, 2)

\* The triangle of coordinates passes the inclusive inside-test for p.
Passes(tri, p) == within(p, tri[1], tri[2], tri[3])

\* The digits whose child of tri passes the inside-test for p.
Passing(tri, p) == {d \in 1..9 : Passes(Child(tri, d), p)}

\* The least number of a non-empty set of numbers.
Lowest(S) == CHOOSE d \in S : \A e \in S : d <= e

\* The child singled out for p by the dividing lines between the ten
\* points of tri: line a-b has p on its right when rightSide(p, va, vb).
TreeChoice(tri, p) ==
    LET P == TenPoints(tri)
        R(a, b) == rightSide(p, At(P, a), At(P, b))
    IN  CHOOSE d \in 1..9 :
            \/ d = 2 /\ R(6, 3) /\ R(9, 5)
            \/ d = 1 /\ R(6, 3) /\ ~R(9, 5) /\ R(5, 4)
            \/ d = 4 /\ R(6, 3) /\ ~R(9, 5) /\ ~R(5, 4) /\ R(4, 9)
            \/ d = 3 /\ R(6, 3) /\ ~R(9, 5) /\ ~R(5, 4) /\ ~R(4, 9)
            \/ d = 6 /\ ~R(6, 3) /\ R(7, 9) /\ R(6, 7)
            \/ d = 5 /\ ~R(6, 3) /\ R(7, 9) /\ ~R(6, 7)
            \/ d = 7 /\ ~R(6, 3) /\ ~R(7, 9) /\ R(8, 9)
            \/ d = 8 /\ ~R(6, 3) /\ ~R(7, 9) /\ ~R(8, 9) /\ R(8, 3)
            \/ d = 9 /\ ~R(6, 3) /\ ~R(7, 9) /\ ~R(8, 9) /\ ~R(8, 3)

\* The digit at level k of a code.
DigitAt(code, k) == code[k + 1] - 48

\* C13: when no child is accepted at some level, the reverse lookup stops
\* there and returns the letter and exactly the digits resolved before,
\* with no placeholder: the code is a letter A-T followed by 0..depth
\* digits 1-9, the point passes the inside-test of the triangle of every
\* prefix, and when the code is shorter than the depth the child chosen at
\* the next level did not pass.
C13_StopsWithoutPadding ==
    (DoneReverse /\ ret.status = "ok")
    => /\ ValidName(ret.value)
       /\ ret.value[1] \in 65..84
       /\ DigitsOf(ret.value) \in 0..Levels
       /\ \A k \in 0..DigitsOf(ret.value) :
              Passes(TriangleOf(Prefix(ret.value, k)), Asked)
       /\ DigitsOf(ret.value) < Levels =>
              ~Passes(Child(TriangleOf(ret.value),
                            TreeChoice(TriangleOf(ret.value), Asked)), Asked)

\* pointToName resolved one digit and stopped at the second of two levels.
C13_Witness ==
    /\ Done("pointToName")
    /\ ret.status = "ok"
    /\ call.depth = 2
    /\ DigitsOf(ret.value) = 1

\* C14 as claimed: at every level the digit appended is the lowest digit
\* in 1..9 whose child passes the inclusive inside-test, and a level fails
\* only when none of the 9 children passes.
C14_LowestPassing ==
    (DoneReverse /\ ret.status = "ok")
    => /\ \A k \in 1..DigitsOf(ret.value) :
              LET tri == TriangleOf(Prefix(ret.value, k - 1))
              IN  /\ Passing(tri, Asked) # {}
                  /\ DigitAt(ret.value, k) = Lowest(Passing(tri, Asked))
       /\ DigitsOf(ret.value) < Levels =>
              Passing(TriangleOf(ret.value), Asked) = {}

\* C14, amended: at every level the digit appended is the child the
\* dividing lines single out for the point, and that child passes the
\* inclusive inside-test; it need not be the lowest digit that passes.  A
\* level fails exactly when the child singled out does not pass, whether
\* or not another child does.
C14_TreeChoice ==
    (DoneReverse /\ ret.status = "ok")
    => /\ \A k \in 1..DigitsOf(ret.value) :
              LET tri == TriangleOf(Prefix(ret.value, k - 1))
              IN  /\ DigitAt(ret.value, k) = TreeChoice(tri, Asked)
                  /\ DigitAt(ret.value, k) \in Passing(tri, Asked)
       /\ DigitsOf(ret.value) < Levels =>
              TreeChoice(TriangleOf(ret.value), Asked)
                  \notin Passing(TriangleOf(ret.value), Asked)

\* A point on the edge shared by children 3 and 4 was given digit 4.
C14_Witness ==
    /\ Done("pointToName")
    /\ ret.status = "ok"
    /\ DigitsOf(ret.value) >= 1
    /\ DigitAt(ret.value, 1) = 4
    /\ 3 \in Passing(TriangleOf(Prefix(ret.value, 0)), Asked)

\* The faces that pass the containment test for p.
FacesPassing(p) == {f \in 0..19 : FacePasses(f, p)}

\* C15: the base face of the reverse lookup is the lowest-index face, in
\* table order A-T, whose three inclusive edge tests all pass; a point on
\* an edge or vertex shared by several faces goes to the first of them.
C15_FirstFace ==
    (DoneReverse /\ ret.status = "ok")
    => /\ FacesPassing(Asked) # {}
       /\ <<ret.value[1]>> = At(this.facets, Lowest(FacesPassing(Asked)))

\* A point on the edge shared by faces C and D was given to C.
C15_Witness ==
    /\ Done("pointToName")
    /\ ret.status = "ok"
    /\ FacesPassing(Asked) = {2, 3}
    /\ ret.value[1] = 67

\* The reverse lookup was asked about the centre of the triangle of a code.
RoundTrip(op) == Done(op) /\ call.name # <<>>

\* The code in upper case, as the reverse lookup writes it.
UpperCode(name) == [name EXCEPT ![1] = UpperUnit(name[1])]

C5_TablesUnchanged ==
    /\ this.facets = facetsTable
    /\ this.vico = vicoTable
    /\ this.fico = ficoTable
    /\ this.subvert = subvertTable
    /\ this.subface = subfaceTable

\* A reverse lookup has descended through subdivisions after a forward
\* lookup that threw and at least one other call.
C5_Witness ==
    /\ Done("pointToName")
    /\ call.depth >= 1
    /\ ret.status = "ok"
    /\ Len(ret.value) >= 2
    /\ seen.status = "throw"
    /\ seen.between

\* C6: a nameToLocations call returns (or throws) exactly what an earlier
\* nameToLocations call with the same code did, whatever lookups, forward
\* or reverse, successful or failing, were made before or between the two.
C6_HistoryIndependent ==
    (Done("nameToLocations") /\ seen.status # "none" /\ seen.name = call.name)
    => ret = [status |-> seen.status, message |-> seen.message, value |-> seen.value]

\* A code with a digit was looked up a second time, successfully, with
\* other calls made between the two lookups.
C6_Witness ==
    /\ Done("nameToLocations")
    /\ seen.status = "ok"
    /\ seen.name = call.name
    /\ Len(call.name) = 2
    /\ seen.between
    /\ ret.status = "ok"

(***************************************************************************)
(* Properties of the tile upload                                           *)
(***************************************************************************)

\* The upload of a tile has been answered with success.
Uploaded == req.stage = "responded" /\ req.route = "upload" /\ req.success

\* C20: after a successful POST /api/tiles/upload of a tile, the file at
\* the tile's recorded filePath exists on disk - also when the tile already
\* had a stored file and the upload replaces it.
C20_UploadedFileExists ==
    Uploaded => /\ HasTile(req.tileCode)
                /\ tiles[req.tileCode].filePath \in disk

\* An upload that replaced the stored file of its tile was answered with
\* success.
C20_Witness == Uploaded /\ req.replaced

(***************************************************************************)
(* Properties of the downloads                                             *)
(***************************************************************************)

\* C21: every ZIP or EPS generation that registers itself in
\* ongoingGenerations removes its entry when it ends - by completion, by
\* the client's abort or by an error: every key of the Map belongs to a
\* generation that is running, so no request is answered 409 when none is.
C21_EntryRemoved ==
    \A key \in DOMAIN ongoingGenerations : Generating(ongoingGenerations[key])

\* A request was answered 409 although no generation was running.
C21_Witness ==
    /\ \E id \in DOMAIN gens : gens[id].status = 409
    /\ \A id \in DOMAIN gens : ~Generating(id)

\* The generations of two requests have the same key.
SameKey(i, j) ==
    generationKey(gens[i].sectorCode, gens[i].route)
        = generationKey(gens[j].sectorCode, gens[j].route)

\* C22 as claimed: a ZIP or EPS request that arrives while a generation
\* with its key is registered is answered 409 and starts no generation.
C22_Answered409 ==
    \A id \in DOMAIN gens :
        (gens[id].busy /\ gens[id].pc = "done")
        => (gens[id].status = 409 /\ ~gens[id].registered)

\* C22: at most one generation per key is in progress at any time, under
\* any interleaving of the requests, and a request answered 409 has
\* started no generation.
C22_AtMostOne ==
    /\ \A i, j \in DOMAIN gens :
           (i # j /\ Generating(i) /\ Generating(j)) => ~SameKey(i, j)
    /\ \A id \in DOMAIN gens : gens[id].status = 409 => ~gens[id].registered

\* A request arrived while a generation with its key was running, and was
\* answered 409.
C22_Witness ==
    \E i, j \in DOMAIN gens :
        /\ i # j
        /\ Generating(i)
        /\ SameKey(i, j)
        /\ gens[j].busy
        /\ gens[j].status = 409

(***************************************************************************)
(* Properties of the storage                                               *)
(***************************************************************************)

\* The tile codes of a sector's list.
Listed(sectorCode) ==
    {sectors[sectorCode].tiles[i] : i \in 1..Len(sectors[sectorCode].tiles)}

\* C27: every tile code listed in a sector's tiles has a metadata entry in
\* the tile cache, after any sequence of sector uploads, tile existence
\* checks and sector deletions.
C27_ListedTilesCached ==
    \A sectorCode \in DOMAIN sectors :
        \A tileCode \in Listed(sectorCode) : HasTile(tileCode)

\* An existence check has found the file of a listed tile missing and has
\* removed the tile's metadata.
C27_Witness ==
    /\ req.stage = "responded" /\ req.route = "exists"
    /\ ~req.success
    /\ \E sectorCode \in DOMAIN sectors :
           req.tileCode \in Listed(sectorCode) /\ ~HasTile(req.tileCode)

\* C23: a sector has the status 'complete' only when all the tile codes of
\* the sector are in its tiles list, that is when missingTiles is empty.
C23_CompleteHasAllTiles ==
    \A sectorCode \in DOMAIN sectors :
        sectors[sectorCode].status = "complete"
            => /\ sectors[sectorCode].missingTiles = <<>>
               /\ \A n \in 1..TotalTiles :
                     generateAllTileCodesForSector(sectorCode)[n]
                         \in Listed(sectorCode)

\* An upload has made sector "M713" complete.
C23_Witness ==
    /\ Uploaded
    /\ HasSector(sectors, SectorM713)
    /\ sectors[SectorM713].status = "complete"
    /\ Len(sectors[SectorM713].tiles) = TotalTiles

\* A save is requested in this step: by a mutating method or by the
\* callback of setImmediate.
SaveRequested ==
    calls' # calls \/ save'.immediates < save.immediates

\* C24: saveToFile never has two writes of the storage file in flight, and
\* a save requested while a write is in progress starts no second write
\* but is queued in pendingSave.
C24_OneWrite ==
    [][/\ Len(save'.writes) <= 1
       /\ (save.saveInProgress /\ SaveRequested /\ save' # save)
            => (save'.writes = save.writes /\ save'.pendingSave)]_vars

\* A save was requested during a write and is queued.
C24_Witness ==
    /\ save.saveInProgress
    /\ save.pendingSave
    /\ Len(save.writes) = 1
    /\ save.writes[1] # Snapshot(sectors, tiles)

\* Nothing is being saved and nothing is queued.
Idle == ~save.saveInProgress /\ ~save.pendingSave

\* C25: no save request is lost: when the writes succeed, after the calls
\* of the mutating methods the storage is in the end idle for good, and the
\* file holds the sectors and the tiles of the memory.
C25_EventuallySaved ==
    <>[](Idle /\ save.file = Snapshot(sectors, tiles))

\* All the calls are made, the last while a write was in progress: the
\* file is behind the memory and the save is queued.
C25_Witness ==
    /\ calls = MaxMutations
    /\ save.saveInProgress
    /\ save.pendingSave
    /\ save.file # Snapshot(sectors, tiles)
    /\ save.writes # <<Snapshot(sectors, tiles)>>

\* C26: after any sequence of legacy uploads, tile-exists checks with a
\* sessionId and session deletions, every tile listed in a remaining
\* session still has its cache entry and its file: a session's deletion
\* removes a tile only when no other session lists it.
C26_ListedTilesKept ==
    \A sessionId \in DOMAIN sessions :
        \A i \in 1..Len(sessions[sessionId].tiles) :
            LET tileCode == sessions[sessionId].tiles[i]
            IN  HasTile(tileCode) /\ tiles[tileCode].filePath \in disk

\* A session was deleted and has taken with it a tile that a remaining
\* session lists.
C26_Witness ==
    /\ req.stage = "responded" /\ req.route = "deleteSession" /\ req.success
    /\ \E sessionId \in DOMAIN sessions :
          \E i \in 1..Len(sessions[sessionId].tiles) :
              ~HasTile(sessions[sessionId].tiles[i])

====
